---- MODULE Spec2Model ----
(***************************************************************************)
(* Round-lifecycle and auto-play engine of BNJMO/ScratchCard-Web.          *)
(*                                                                         *)
(* src/src/main.js holds two controllers: the scratch-card controller      *)
(* (lines 1-387) and the Mines controller (lines 388-1497).  Each is       *)
(* modelled as a state machine whose actions are the event handlers of     *)
(* the code: user-interface events, inbound relay messages, timer          *)
(* expirations and animation-completion callbacks.  A handler runs to      *)
(* completion (JavaScript is single threaded), so one action is one        *)
(* handler, every call it makes included.                                  *)
(*                                                                         *)
(* Handlers are written as operators from a record of the program's        *)
(* fields to the record after the call; an action commits the record       *)
(* to the variables.                                                       *)
(***************************************************************************)
EXTENDS Integers, Sequences, FiniteSets, TLC

(***************************************************************************)
(* Layout builders of the scratch card: src/src/main.js lines 40-130.      *)
(* One call of buildWinningAssignments or buildLosingAssignments is        *)
(* followed cell by cell, each random choice being one step.               *)
(***************************************************************************)
VARIABLES
  lay_fn,             \* the builder running: "none" | "win" | "lost"
  lay_cardTypeCount,  \* its argument cardTypeCount
  lay_winningType,    \* const winningType of buildWinningAssignments
  lay_positions,      \* const positions
  lay_assignments,    \* const assignments
  lay_counts,         \* const counts
  lay_cursor,         \* let cursor, or the loop index i of the losing builder
  lay_returned        \* the builder has returned its layout

lVars == <<lay_fn, lay_cardTypeCount, lay_winningType, lay_positions,
           lay_assignments, lay_counts, lay_cursor, lay_returned>>

(***************************************************************************)
(* Scratch-card controller: src/src/main.js lines 1-387.                   *)
(***************************************************************************)
VARIABLES
  sc_demoMode,          \* let demoMode
  sc_waitingForResult,  \* let waitingForResult
  sc_currentMode,       \* let currentMode: "manual" | "auto"
  sc_roundActive,       \* let roundActive
  sc_autoRunning,       \* let autoRunning
  sc_autoTimer,         \* let autoTimer: TRUE while the timeout is armed
  sc_betEnabled,        \* ControlPanel.betButtonDisabled, negated
  sc_revealAllEnabled,  \* ControlPanel.revealAllDisabled, negated
  sc_interactions,      \* game.setInteractionsEnabled
  sc_gamePhase,         \* the card board: "empty" | "round" | "revealing" | "complete"
  sc_gameResult,        \* result of the round on the board: "none" | "win" | "lost"
  sc_gameTag,           \* flips whenever setRound installs an assignment
  sc_awaiting,          \* requests sent to the channel and not yet answered
  sc_wagerSeq           \* flips whenever a wager is submitted

scVars == <<sc_demoMode, sc_waitingForResult, sc_currentMode, sc_roundActive,
            sc_autoRunning, sc_autoTimer, sc_betEnabled, sc_revealAllEnabled,
            sc_interactions, sc_gamePhase, sc_gameResult, sc_gameTag,
            sc_awaiting, sc_wagerSeq>>

\* State of the Mines controller (src/src/main.js lines 388-1497), of its
\* control panel and of its board.
VARIABLES
  \* main.js, module-level state of the Mines controller
  demoMode, suppressRelay, betButtonMode, roundActive, cashoutAvailable,
  selectionDelayHandle,   \* "none" | "manual" | "auto": the armed callback
  selectionDelayCells,    \* the selections captured by the "auto" callback
  selectionPending, minesSelectionLocked, controlPanelMode,
  autoSelectionCount, storedAutoSelections, autoRunActive, autoRunFlag,
  autoRoundInProgress, autoBetsRemaining,
  autoResetTimer,         \* TRUE while the timeout is armed
  selectionTimers,        \* selection-delay timeouts set and not yet fired or cleared
  resetTimers,            \* auto-reset timeouts set and not yet fired or cleared
  autoStopShouldComplete, autoStopFinishing, manualRoundNeedsReset,
  totalProfitAmountDisplayValue,   \* the amount, in whole units
  \* controlPanel.js, the fields the controller reads or that gate events
  cp_betClickable, cp_randomClickable, cp_autoStartClickable,
  cp_minesClickable, cp_modeToggleClickable, cp_numberOfBetsClickable,
  cp_autoStartMode, cp_mines, cp_numberOfBets,
  cp_stopOnProfitClickable, cp_stopOnLossClickable,
  cp_stopOnProfit, cp_stopOnLoss,   \* the amounts typed in the two fields
  \* game.js, state of the board created by createGame
  mines, tiles, bombPositions, gameOver, revealedSafe, totalSafe,
  waitingForChoice,
  selectedTile,           \* a cell, or 0 for null
  autoSelectedTiles,
  reveals,                \* reveals in progress: timers and tweens of revealTileWithFlip
  batches,                \* closures of revealAutoSelections still referenced
  \* observation
  sent,                   \* message types handed to serverRelay.send by the last handler
  called,                 \* board callbacks and cycle starts run by the last handler
  inbound,                \* inbound messages delivered so far
  sessionBets,            \* autoBetsRemaining as set when the auto session began
  cyclesRun,              \* auto cycles started since the auto session began
  asked                   \* a selection of this board was sent and is not answered

mVars == <<demoMode, suppressRelay, betButtonMode, roundActive,
           cashoutAvailable, selectionDelayHandle, selectionDelayCells,
           selectionPending, minesSelectionLocked, controlPanelMode,
           autoSelectionCount, storedAutoSelections, autoRunActive,
           autoRunFlag, autoRoundInProgress, autoBetsRemaining,
           autoResetTimer, selectionTimers, resetTimers,
           autoStopShouldComplete, autoStopFinishing,
           manualRoundNeedsReset, cp_betClickable, cp_randomClickable,
           cp_autoStartClickable, cp_minesClickable, cp_modeToggleClickable,
           cp_numberOfBetsClickable, cp_autoStartMode, cp_mines,
           cp_numberOfBets, totalProfitAmountDisplayValue,
           cp_stopOnProfitClickable, cp_stopOnLossClickable,
           cp_stopOnProfit, cp_stopOnLoss,
           mines, tiles, bombPositions, gameOver,
           revealedSafe, totalSafe, waitingForChoice, selectedTile,
           autoSelectedTiles, reveals, batches, sent, called, inbound,
           sessionBets, cyclesRun, asked>>

\* The most unanswered requests the channel is tracked to hold.
MaxAwaiting == 2

Modes == {"manual", "auto"}

\* The values an inbound bet-result's `result` field is drawn from
\* ("none" stands for a missing or unrecognised value).
ScResults == {"win", "lost", "none"}

ScWorld ==
  [demoMode |-> sc_demoMode, waitingForResult |-> sc_waitingForResult,
   currentMode |-> sc_currentMode, roundActive |-> sc_roundActive,
   autoRunning |-> sc_autoRunning, autoTimer |-> sc_autoTimer,
   betEnabled |-> sc_betEnabled, revealAllEnabled |-> sc_revealAllEnabled,
   interactions |-> sc_interactions, gamePhase |-> sc_gamePhase,
   gameResult |-> sc_gameResult, gameTag |-> sc_gameTag,
   awaiting |-> sc_awaiting, wagerSeq |-> sc_wagerSeq]

ScCommit(s) ==
  /\ sc_demoMode' = s.demoMode
  /\ sc_waitingForResult' = s.waitingForResult
  /\ sc_currentMode' = s.currentMode
  /\ sc_roundActive' = s.roundActive
  /\ sc_autoRunning' = s.autoRunning
  /\ sc_autoTimer' = s.autoTimer
  /\ sc_betEnabled' = s.betEnabled
  /\ sc_revealAllEnabled' = s.revealAllEnabled
  /\ sc_interactions' = s.interactions
  /\ sc_gamePhase' = s.gamePhase
  /\ sc_gameResult' = s.gameResult
  /\ sc_gameTag' = s.gameTag
  /\ sc_awaiting' = s.awaiting
  /\ sc_wagerSeq' = s.wagerSeq
  /\ UNCHANGED <<mVars, lVars>>

\* ---- the card board (RenderSurface contract of the spec, section 6) ----

\* game.reset(): the board is cleared; a reveal in progress is dropped.
ScGameReset(s) == [s EXCEPT !.gamePhase = "empty", !.gameResult = "none"]

\* game.setRound(roundData): the assignment of the round is installed.
ScGameSetRound(s, result) ==
  [s EXCEPT !.gamePhase = "round", !.gameResult = result,
            !.gameTag = 1 - s.gameTag]

\* game.revealAll(): the remaining cells start to reveal; onRoundComplete
\* follows asynchronously.
ScGameRevealAll(s) ==
  IF s.gamePhase = "round" THEN [s EXCEPT !.gamePhase = "revealing"] ELSE s

\* ---- the controller ----

\* serverRelay.send(type, payload)
ScSend(s) ==
  [s EXCEPT !.awaiting = IF s.awaiting < MaxAwaiting THEN s.awaiting + 1
                          ELSE s.awaiting]

ScUpdateControlPanelState(s) ==
  LET allowStop == s.currentMode = "auto" /\ s.autoRunning
      disabled == IF allowStop THEN FALSE
                  ELSE s.waitingForResult \/ s.roundActive
  IN [s EXCEPT !.betEnabled = ~disabled,
               !.revealAllEnabled = s.roundActive /\ ~s.waitingForResult]

ScResetRoundState(s) ==
  LET s1 == [s EXCEPT !.roundActive = FALSE, !.waitingForResult = FALSE,
                      !.revealAllEnabled = FALSE]
      s2 == ScUpdateControlPanelState(s1)
  IN [s2 EXCEPT !.interactions = FALSE]

ScStartRound(s, result) ==
  LET s1 == ScGameSetRound(s, result)
      s2 == [s1 EXCEPT !.roundActive = TRUE, !.waitingForResult = FALSE,
                       !.interactions = TRUE, !.revealAllEnabled = TRUE]
      s3 == IF s.currentMode = "auto" /\ s.autoRunning
            THEN ScGameRevealAll(s2) ELSE s2
  IN ScUpdateControlPanelState(s3)

\* The timeout armed by scheduleNextAutoRound; its callback is ScAutoTimerBody.
ScScheduleNextAutoRound(s) == [s EXCEPT !.autoTimer = TRUE]

ScFinishRound(s) ==
  LET s1 == [s EXCEPT !.roundActive = FALSE, !.interactions = FALSE,
                      !.revealAllEnabled = FALSE]
      s2 == ScUpdateControlPanelState(s1)
  IN IF s2.currentMode = "auto" /\ s2.autoRunning
     THEN ScScheduleNextAutoRound(s2) ELSE s2

\* buildRound(currentCardTypes): the result is drawn at random.
ScSubmitted(s) == [s EXCEPT !.wagerSeq = 1 - s.wagerSeq]

ScRequestBet(s, drawn) ==
  IF s.waitingForResult \/ s.roundActive THEN s
  ELSE LET s1 == ScUpdateControlPanelState(
                   [s EXCEPT !.waitingForResult = TRUE])
       IN IF s1.demoMode
          THEN ScStartRound(ScSubmitted(s1), drawn)
          ELSE ScSend(ScSubmitted(s1))

\* stopAutoMode without its updateControlPanelState()
ScStopAutoModeStalePanel(s) ==
  [s EXCEPT !.autoRunning = FALSE, !.autoTimer = FALSE]

ScStopAutoMode(s) ==
  ScUpdateControlPanelState([s EXCEPT !.autoRunning = FALSE,
                                      !.autoTimer = FALSE])

ScStartAutoMode(s, drawn) ==
  IF s.autoRunning THEN ScStopAutoMode(s)
  ELSE LET s1 == ScGameReset([s EXCEPT !.autoRunning = TRUE])
       IN ScRequestBet(ScUpdateControlPanelState(s1), drawn)

ScHandleBetButton(s, drawn) ==
  IF s.currentMode = "auto"
  THEN IF s.autoRunning THEN ScStopAutoMode(s) ELSE ScStartAutoMode(s, drawn)
  ELSE IF s.roundActive \/ s.waitingForResult THEN s
       ELSE ScRequestBet(ScGameReset(s), drawn)

ScHandleRevealAll(s) ==
  IF ~s.roundActive \/ s.waitingForResult THEN s ELSE ScGameRevealAll(s)

ScHandleBetResult(s, result) ==
  LET normalizedResult == IF result = "win" THEN "win" ELSE "lost"
  IN ScStartRound(s, normalizedResult)

ScSetDemoMode(s, next) ==
  IF s.demoMode = next THEN s
  ELSE LET s1 == [s EXCEPT !.demoMode = next]
       IN IF ~s1.demoMode THEN ScStopAutoMode(s1) ELSE s1

ScModeChangeListener(s, nextMode) ==
  IF s.currentMode = nextMode THEN s
  ELSE LET s1 == [s EXCEPT !.currentMode = nextMode]
           s2 == IF s1.currentMode # "auto" THEN ScStopAutoMode(s1) ELSE s1
       IN ScResetRoundState(s2)

ScAutoTimerBody(s, drawn) ==
  LET s1 == ScGameReset([s EXCEPT !.autoTimer = FALSE])
  IN IF ~s1.autoRunning THEN ScResetRoundState(s1)
     ELSE IF s1.demoMode THEN ScStartRound(ScSubmitted(s1), drawn)
     ELSE ScSend(ScSubmitted(ScUpdateControlPanelState(
                   [s1 EXCEPT !.waitingForResult = TRUE])))

\* ---- actions of the scratch-card controller ----

\* The Bet button is clicked; the panel dispatches "bet" unless disabled.
ScBetClick ==
  /\ sc_betEnabled
  /\ \E drawn \in {"win", "lost"} : ScCommit(ScHandleBetButton(ScWorld, drawn))

ScRevealAllClick ==
  /\ sc_revealAllEnabled
  /\ ScCommit(ScHandleRevealAll(ScWorld))

\* ControlPanel.setMode dispatches "modechange" only for another mode.
ScModeChange ==
  \E m \in Modes :
    /\ m # sc_currentMode
    /\ ScCommit(ScModeChangeListener(ScWorld, m))

\* The Demo Mode checkbox of the dummy server, or a demomodechange event.
ScDemoToggle ==
  \E v \in BOOLEAN :
    /\ v # sc_demoMode
    /\ ScCommit(ScSetDemoMode(ScWorld, v))

\* An inbound bet-result; it answers the oldest unanswered request, if any.
ScIncomingBetResult(result) ==
  LET s1 == [ScWorld EXCEPT !.awaiting = IF sc_awaiting > 0
                                          THEN sc_awaiting - 1 ELSE 0]
  IN ScCommit(ScHandleBetResult(s1, result))

ScIncoming == \E r \in ScResults : ScIncomingBetResult(r)

ScAutoTimerFires ==
  /\ sc_autoTimer
  /\ \E drawn \in {"win", "lost"} : ScCommit(ScAutoTimerBody(ScWorld, drawn))

\* The player scratches a cell while interactions are enabled.
ScScratch ==
  /\ sc_interactions
  /\ sc_gamePhase = "round"
  /\ ScCommit([ScWorld EXCEPT !.gamePhase = "revealing"])

\* The last reveal animation completes: onRoundComplete -> finishRound.
ScRoundComplete ==
  /\ sc_gamePhase = "revealing"
  /\ ScCommit(ScFinishRound([ScWorld EXCEPT !.gamePhase = "complete"]))

ScInit ==
  /\ sc_demoMode = TRUE
  /\ sc_waitingForResult = FALSE
  /\ sc_currentMode = "manual"
  /\ sc_roundActive = FALSE
  /\ sc_autoRunning = FALSE
  /\ sc_autoTimer = FALSE
  /\ sc_betEnabled = TRUE
  /\ sc_revealAllEnabled = FALSE
  /\ sc_interactions = FALSE
  /\ sc_gamePhase = "empty"
  /\ sc_gameResult = "none"
  /\ sc_gameTag = 0
  /\ sc_awaiting = 0
  /\ sc_wagerSeq = 0

ScNext ==
  \/ ScBetClick
  \/ ScRevealAllClick
  \/ ScModeChange
  \/ ScDemoToggle
  \/ ScIncoming
  \/ ScAutoTimerFires
  \/ ScScratch
  \/ ScRoundComplete

(***************************************************************************)
(* Mines controller: src/src/main.js lines 388-1497, its control panel     *)
(* (src/src/controlPanel/controlPanel.js) and its board                    *)
(* (src/src/game/game.js).                                                 *)
(***************************************************************************)
\* Cells of the board (GRID * GRID = 25 in the program).
NumCells == 3
\* Largest number of bets the player types into the auto panel.
MaxBets == 2
\* Inbound messages delivered in one behaviour.
MaxInbound == 2
\* Closures of revealAutoSelections alive at once.
MaxBatches == 2
\* let autoBetsRemaining = Infinity
Infinity == -1

Cells == 1..NumCells
IsFinite(n) == n >= 0
Max(a, b) == IF a > b THEN a ELSE b
Min(a, b) == IF a < b THEN a ELSE b

W ==
  [demoMode |-> demoMode, suppressRelay |-> suppressRelay,
   betButtonMode |-> betButtonMode, roundActive |-> roundActive,
   cashoutAvailable |-> cashoutAvailable,
   selectionDelayHandle |-> selectionDelayHandle,
   selectionDelayCells |-> selectionDelayCells,
   selectionPending |-> selectionPending,
   minesSelectionLocked |-> minesSelectionLocked,
   controlPanelMode |-> controlPanelMode,
   autoSelectionCount |-> autoSelectionCount,
   storedAutoSelections |-> storedAutoSelections,
   autoRunActive |-> autoRunActive, autoRunFlag |-> autoRunFlag,
   autoRoundInProgress |-> autoRoundInProgress,
   autoBetsRemaining |-> autoBetsRemaining,
   autoResetTimer |-> autoResetTimer,
   selectionTimers |-> selectionTimers, resetTimers |-> resetTimers,
   autoStopShouldComplete |-> autoStopShouldComplete,
   autoStopFinishing |-> autoStopFinishing,
   manualRoundNeedsReset |-> manualRoundNeedsReset,
   cp_betClickable |-> cp_betClickable,
   cp_randomClickable |-> cp_randomClickable,
   cp_autoStartClickable |-> cp_autoStartClickable,
   cp_minesClickable |-> cp_minesClickable,
   cp_modeToggleClickable |-> cp_modeToggleClickable,
   cp_numberOfBetsClickable |-> cp_numberOfBetsClickable,
   cp_autoStartMode |-> cp_autoStartMode, cp_mines |-> cp_mines,
   cp_numberOfBets |-> cp_numberOfBets,
   totalProfitAmountDisplayValue |-> totalProfitAmountDisplayValue,
   cp_stopOnProfitClickable |-> cp_stopOnProfitClickable,
   cp_stopOnLossClickable |-> cp_stopOnLossClickable,
   cp_stopOnProfit |-> cp_stopOnProfit, cp_stopOnLoss |-> cp_stopOnLoss,
   mines |-> mines, tiles |-> tiles, bombPositions |-> bombPositions,
   gameOver |-> gameOver, revealedSafe |-> revealedSafe,
   totalSafe |-> totalSafe, waitingForChoice |-> waitingForChoice,
   selectedTile |-> selectedTile, autoSelectedTiles |-> autoSelectedTiles,
   reveals |-> reveals, batches |-> batches,
   sent |-> {}, called |-> {}, inbound |-> inbound,
   sessionBets |-> sessionBets, cyclesRun |-> cyclesRun, asked |-> asked]

\* A closure of revealAutoSelections is unreachable once none of its reveals
\* is in progress.
LiveBatches(n) ==
  [id \in {x \in DOMAIN n.batches : \E r \in n.reveals : r.batch = x}
     |-> n.batches[id]]

Commit(n) ==
  /\ demoMode' = n.demoMode
  /\ suppressRelay' = n.suppressRelay
  /\ betButtonMode' = n.betButtonMode
  /\ roundActive' = n.roundActive
  /\ cashoutAvailable' = n.cashoutAvailable
  /\ selectionDelayHandle' = n.selectionDelayHandle
  /\ selectionDelayCells' = n.selectionDelayCells
  /\ selectionPending' = n.selectionPending
  /\ minesSelectionLocked' = n.minesSelectionLocked
  /\ controlPanelMode' = n.controlPanelMode
  /\ autoSelectionCount' = n.autoSelectionCount
  /\ storedAutoSelections' = n.storedAutoSelections
  /\ autoRunActive' = n.autoRunActive
  /\ autoRunFlag' = n.autoRunFlag
  /\ autoRoundInProgress' = n.autoRoundInProgress
  /\ autoBetsRemaining' = n.autoBetsRemaining
  /\ autoResetTimer' = n.autoResetTimer
  /\ selectionTimers' = n.selectionTimers
  /\ resetTimers' = n.resetTimers
  /\ autoStopShouldComplete' = n.autoStopShouldComplete
  /\ autoStopFinishing' = n.autoStopFinishing
  /\ manualRoundNeedsReset' = n.manualRoundNeedsReset
  /\ cp_betClickable' = n.cp_betClickable
  /\ cp_randomClickable' = n.cp_randomClickable
  /\ cp_autoStartClickable' = n.cp_autoStartClickable
  /\ cp_minesClickable' = n.cp_minesClickable
  /\ cp_modeToggleClickable' = n.cp_modeToggleClickable
  /\ cp_numberOfBetsClickable' = n.cp_numberOfBetsClickable
  /\ cp_autoStartMode' = n.cp_autoStartMode
  /\ cp_mines' = n.cp_mines
  /\ cp_numberOfBets' = n.cp_numberOfBets
  /\ totalProfitAmountDisplayValue' = n.totalProfitAmountDisplayValue
  /\ cp_stopOnProfitClickable' = n.cp_stopOnProfitClickable
  /\ cp_stopOnLossClickable' = n.cp_stopOnLossClickable
  /\ cp_stopOnProfit' = n.cp_stopOnProfit
  /\ cp_stopOnLoss' = n.cp_stopOnLoss
  /\ mines' = n.mines
  /\ tiles' = n.tiles
  /\ bombPositions' = n.bombPositions
  /\ gameOver' = n.gameOver
  /\ revealedSafe' = n.revealedSafe
  /\ totalSafe' = n.totalSafe
  /\ waitingForChoice' = n.waitingForChoice
  /\ selectedTile' = n.selectedTile
  /\ autoSelectedTiles' = n.autoSelectedTiles
  /\ reveals' = n.reveals
  /\ batches' = LiveBatches(n)
  /\ sent' = n.sent
  /\ called' = n.called
  /\ inbound' = n.inbound
  /\ sessionBets' = n.sessionBets
  /\ cyclesRun' = n.cyclesRun
  /\ asked' = n.asked
  /\ UNCHANGED <<scVars, lVars>>

\* ---- main.js: relay and control-panel setters ----

Say(w, label) == [w EXCEPT !.called = @ \cup {label}]

\* sendRelayMessage without the demoMode test
SendRelayMessageInDemo(w, type) ==
  IF w.suppressRelay THEN w
  ELSE [w EXCEPT !.sent = @ \cup {type}]

\* sendRelayMessage(type, payload)
SendRelayMessage(w, type) ==
  IF w.demoMode \/ w.suppressRelay THEN w
  ELSE [w EXCEPT !.sent = @ \cup {type}]

SetControlPanelBetMode(w, mode) ==
  [w EXCEPT !.betButtonMode = IF mode = "bet" THEN "bet" ELSE "cashout"]

SetControlPanelBetState(w, isClickable) ==
  [w EXCEPT !.cp_betClickable = isClickable]

SetControlPanelRandomState(w, isClickable) ==
  [w EXCEPT !.cp_randomClickable = isClickable]

SetControlPanelAutoStartState(w, isClickable) ==
  [w EXCEPT !.cp_autoStartClickable = isClickable /\ ~w.autoStopFinishing]

SetControlPanelMinesState(w, isClickable) ==
  [w EXCEPT !.cp_minesClickable = isClickable]

DisableServerRoundSetupControls(w) ==
  [w EXCEPT !.cp_betClickable = FALSE, !.cp_randomClickable = FALSE,
            !.cp_minesClickable = FALSE, !.cp_modeToggleClickable = FALSE]

\* the timeouts left pending by clearTimeout(selectionDelayHandle), which
\* is called when the handle is set
SelectionTimersCleared(w) ==
  IF w.selectionDelayHandle # "none"
  THEN w.selectionTimers - 1 ELSE w.selectionTimers

\* the timeouts left pending by clearTimeout(autoResetTimer)
ResetTimersCleared(w) ==
  IF w.autoResetTimer THEN w.resetTimers - 1 ELSE w.resetTimers

ClearSelectionDelay(w) ==
  [w EXCEPT !.selectionDelayHandle = "none", !.selectionDelayCells = {},
            !.selectionTimers = SelectionTimersCleared(w),
            !.selectionPending = FALSE]

BeginSelectionDelay(w) ==
  [w EXCEPT !.selectionDelayHandle = "none", !.selectionDelayCells = {},
            !.selectionTimers = SelectionTimersCleared(w),
            !.selectionPending = TRUE, !.cp_betClickable = FALSE,
            !.cp_randomClickable = FALSE]

\* ---- main.js: round state ----

\* the tail shared by prepareForNewRoundState and finalizeRound
\* (preserveAutoSelections branch and its else branch)
RefreshAutoSelectionCount(w, preserveAutoSelections) ==
  IF preserveAutoSelections
  THEN [w EXCEPT
          !.autoSelectionCount = Cardinality(w.storedAutoSelections),
          !.cp_autoStartClickable =
             IF ~w.autoRunActive /\ w.controlPanelMode = "auto"
             THEN Cardinality(w.storedAutoSelections) > 0
                  /\ ~w.selectionPending /\ ~w.autoStopFinishing
             ELSE @]
  ELSE [w EXCEPT
          !.autoSelectionCount = 0,
          !.cp_autoStartClickable = IF ~w.autoRunActive THEN FALSE ELSE @]

FinalizeRound(w, preserveAutoSelections) ==
  RefreshAutoSelectionCount(
    [w EXCEPT !.roundActive = FALSE, !.cashoutAvailable = FALSE,
              !.selectionDelayHandle = "none", !.selectionDelayCells = {},
              !.selectionTimers = SelectionTimersCleared(w),
              !.selectionPending = FALSE,
              !.betButtonMode = "bet", !.cp_randomClickable = FALSE,
              !.minesSelectionLocked = FALSE,
              !.cp_betClickable = ~w.autoRunActive,
              !.cp_minesClickable = ~w.autoRunActive,
              !.cp_modeToggleClickable = ~w.autoRunActive,
              !.called = @ \cup {"finalize"}],
    preserveAutoSelections)

ApplyRoundInteractiveState(w, revealed, waiting) ==
  IF ~w.roundActive THEN w
  ELSE IF w.selectionPending \/ waiting
  THEN [w EXCEPT !.betButtonMode = "cashout", !.cp_betClickable = FALSE,
                 !.cp_randomClickable = FALSE,
                 !.cashoutAvailable = revealed > 0]
  ELSE [w EXCEPT !.betButtonMode = "cashout",
                 !.cashoutAvailable = revealed > 0,
                 !.cp_betClickable = revealed > 0,
                 !.cp_randomClickable = TRUE]

\* handleGameStateChange(state), state being getState() of the board
HandleGameStateChange(w) ==
  IF ~w.roundActive THEN w
  ELSE IF w.gameOver
       THEN FinalizeRound(w, w.controlPanelMode = "auto")
       ELSE ApplyRoundInteractiveState(w, w.revealedSafe, w.waitingForChoice)

\* handleAutoSelectionChange, first part: the stored selection
StoreAutoSelections(w, count) ==
  IF w.controlPanelMode = "auto"
     /\ (count > 0 \/ (~w.autoRunActive /\ ~w.autoRoundInProgress))
  THEN [w EXCEPT !.autoSelectionCount = count,
                 !.storedAutoSelections = w.autoSelectedTiles]
  ELSE [w EXCEPT !.autoSelectionCount = count]

\* handleAutoSelectionChange, the mines lock
LockMinesSelection(w, count) ==
  IF count > 0 /\ ~w.minesSelectionLocked
  THEN [w EXCEPT !.minesSelectionLocked = TRUE, !.cp_minesClickable = FALSE]
  ELSE IF count = 0 /\ ~w.autoRunActive
  THEN [w EXCEPT !.minesSelectionLocked = FALSE, !.cp_minesClickable = TRUE]
  ELSE w

\* handleAutoSelectionChange, the start button and the relay message
RefreshAutoStart(w, count) ==
  IF w.autoRunActive
  THEN SetControlPanelAutoStartState(w, ~w.autoStopFinishing)
  ELSE SendRelayMessage(
         SetControlPanelAutoStartState(w, count > 0 /\ ~w.selectionPending),
         "game:auto-selections")

\* handleAutoSelectionChange after its first part
AutoSelectionChanged(w, count) ==
  IF w.controlPanelMode # "auto"
  THEN SetControlPanelAutoStartState(w, FALSE)
  ELSE IF ~w.roundActive
  THEN (IF ~w.autoRunActive
        THEN SetControlPanelAutoStartState(w, FALSE) ELSE w)
  ELSE RefreshAutoStart(LockMinesSelection(w, count), count)

HandleAutoSelectionChange(w, count) ==
  AutoSelectionChanged(StoreAutoSelections(w, count), count)

\* handleCardSelected asking the relay in demo mode as well
CardSelectedNeverArming(w) ==
  SendRelayMessage([w EXCEPT !.asked = TRUE], "game:manual-selection")

\* handleCardSelected once the round and the mode let it through
CardSelected(w) ==
  IF ~w.demoMode /\ ~w.suppressRelay
  THEN SendRelayMessage([w EXCEPT !.asked = TRUE],
                        "game:manual-selection")
  ELSE [w EXCEPT !.selectionDelayHandle = "manual",
                 !.selectionTimers = @ + 1]

HandleCardSelected(w) ==
  IF ~w.roundActive THEN w
  ELSE IF w.controlPanelMode = "auto" THEN w
  ELSE CardSelected(BeginSelectionDelay(
         [w EXCEPT !.minesSelectionLocked = TRUE,
                   !.cp_minesClickable =
                      IF w.minesSelectionLocked THEN @ ELSE FALSE]))

\* ---- game.js: the board ----

FreshTile == [revealed |-> FALSE, animating |-> FALSE, taped |-> FALSE,
              face |-> "none"]

\* notifyAutoSelectionChange()
NotifyAutoSelectionChange(w) ==
  HandleAutoSelectionChange(w, Cardinality(w.autoSelectedTiles))

\* clearAutoSelections({ emit: false })
DropAutoSelections(w) ==
  [w EXCEPT !.tiles = [c \in Cells |->
                         IF c \in w.autoSelectedTiles
                         THEN [w.tiles[c] EXCEPT !.taped = FALSE]
                         ELSE w.tiles[c]],
            !.autoSelectedTiles = {}]

ClearAutoSelections(w) == NotifyAutoSelectionChange(DropAutoSelections(w))

\* toggleAutoTileSelection(tile) of an unrevealed tile
ToggleAutoTileSelection(w, c) ==
  HandleGameStateChange(NotifyAutoSelectionChange(
    [w EXCEPT !.tiles[c].taped = c \notin w.autoSelectedTiles,
              !.autoSelectedTiles =
                 IF c \in w.autoSelectedTiles THEN @ \ {c} ELSE @ \cup {c},
              !.waitingForChoice = FALSE, !.selectedTile = 0]))

\* The tiles of the old board are destroyed.  A reveal in progress on a
\* destroyed tile does nothing but call its onComplete, so only the reveals
\* of a batch (the only ones with an onComplete) are kept, marked dead.
DestroyReveals(rs) ==
  {[r EXCEPT !.dead = TRUE, !.face = "none", !.k = 1]
     : r \in {x \in rs : x.batch # 0}}

\* buildBoard after clearSelection
NewBoard(w) ==
  [w EXCEPT !.tiles = [c \in Cells |-> FreshTile],
            !.revealedSafe = 0,
            !.totalSafe = NumCells - w.mines,
            !.reveals = DestroyReveals(w.reveals),
            !.asked = FALSE]

\* applyAutoSelectionsFromCoordinates(coordinates, { emit: false }) on a
\* board without selections
SelectCoordinates(w, coordinates) ==
  [w EXCEPT !.tiles = [c \in Cells |->
                         IF c \in coordinates /\ ~w.tiles[c].revealed
                            /\ ~w.tiles[c].animating
                         THEN [w.tiles[c] EXCEPT !.taped = TRUE]
                         ELSE w.tiles[c]],
            !.autoSelectedTiles =
               {c \in coordinates :
                  ~w.tiles[c].revealed /\ ~w.tiles[c].animating}]

\* applyAutoSelectionsFromCoordinates(coordinates, { emit: true })
ApplyAutoSelectionsFromCoordinates(w, coordinates) ==
  NotifyAutoSelectionChange(SelectCoordinates(DropAutoSelections(w),
                                              coordinates))

\* reset() and reset({ preserveAutoSelections: false })
ResetBoard(w) ==
  HandleGameStateChange(NewBoard(ClearAutoSelections(
    [w EXCEPT !.gameOver = FALSE, !.bombPositions = {},
              !.waitingForChoice = FALSE, !.selectedTile = 0])))

\* reset({ preserveAutoSelections: true }) after buildBoard
RestoreAutoSelections(w, preserved) ==
  IF preserved # {} THEN ApplyAutoSelectionsFromCoordinates(w, preserved)
  ELSE w

\* reset({ preserveAutoSelections: true })
ResetPreserving(w) ==
  HandleGameStateChange(RestoreAutoSelections(
    NewBoard(DropAutoSelections(
      [w EXCEPT !.gameOver = FALSE, !.bombPositions = {},
                !.waitingForChoice = FALSE, !.selectedTile = 0])),
    w.autoSelectedTiles))

SetMines(w, n) ==
  ResetBoard([w EXCEPT !.mines = Max(1, Min(n, NumCells - 1))])

\* Orders in which the shuffle of revealAllTiles ranks the cells: the
\* rotations of the cell order, which let any unrevealed tile come first.
Ranks == {[c \in Cells |-> ((c - p + NumCells) % NumCells) + 1] : p \in Cells}

\* The shuffles that can make a difference to a handler of the state w:
\* revealAllTiles picks mines - 1 bombs, none when mines = 1.
Shuffles(w, revealsAll) ==
  IF revealsAll /\ w.mines > 1 THEN Ranks ELSE {[c \in Cells |-> c]}

\* Identical reveals of one tile told apart.
MaxDup == 2

Task(c, face, byPlayer, batch, phase, k) ==
  [cell |-> c, face |-> face, byPlayer |-> byPlayer, batch |-> batch,
   phase |-> phase, dead |-> FALSE, k |-> k]

\* revealTileWithFlip(tile, ...) gets past its first line:
\* if (tile._animating || tile.revealed) return false
Started(w, c) == ~w.tiles[c].animating /\ ~w.tiles[c].revealed

\* the index that tells a new reveal from the identical ones in progress
FreeDup(w, c, face, byPlayer, batch) ==
  IF \E k \in 1..MaxDup :
       Task(c, face, byPlayer, batch, "delay", k) \notin w.reveals
  THEN CHOOSE k \in 1..MaxDup :
         /\ Task(c, face, byPlayer, batch, "delay", k) \notin w.reveals
         /\ \A j \in 1..(k - 1) :
              Task(c, face, byPlayer, batch, "delay", j) \in w.reveals
  ELSE MaxDup

\* revealTileWithFlip(tile, face, revealedByPlayer, { onComplete }): the flip
\* waits for its delay timer; _animating is set only when that timer fires.
RevealTileWithFlip(w, c, face, byPlayer, batch) ==
  IF ~Started(w, c) THEN w
  ELSE [w EXCEPT !.reveals = @ \cup
          {Task(c, face, byPlayer, batch, "delay",
                FreeDup(w, c, face, byPlayer, batch))}]

\* the tiles revealAllTiles turns into bombs: the first mines - 1 of the
\* shuffled unrevealed tiles other than the triggered one
BombTiles(w, triggeredBombTile, rank) ==
  {c \in Cells :
     /\ ~w.tiles[c].revealed /\ c # triggeredBombTile
     /\ Cardinality({d \in Cells : /\ ~w.tiles[d].revealed
                                   /\ d # triggeredBombTile
                                   /\ rank[d] < rank[c]}) < w.mines - 1}

\* revealAllTiles, the reveals once bombPositions is updated
RevealUnrevealed(w, stagger) ==
  [w EXCEPT !.reveals = @ \cup
     {Task(c, IF c \in w.bombPositions THEN "bomb" ELSE "diamond", FALSE, 0,
           IF stagger THEN "stagger" ELSE "delay", 1)
        : c \in {d \in Cells : /\ ~w.tiles[d].revealed
                               /\ (stagger \/ ~w.tiles[d].animating)}}]

\* revealAllTiles choosing the mines and flipping no tile
RevealAllTilesMarkingOnly(w, triggeredBombTile, stagger, rank) ==
  [w EXCEPT !.bombPositions = @ \cup BombTiles(w, triggeredBombTile, rank)]

\* revealAllTiles(triggeredBombTile, { stagger })
RevealAllTiles(w, triggeredBombTile, stagger, rank) ==
  RevealUnrevealed(
    [w EXCEPT !.bombPositions = @ \cup BombTiles(w, triggeredBombTile, rank)],
    stagger)

\* setSelectedCardIsDiamond() / SetSelectedCardIsBomb(): face is the side
SetSelectedCard(w, face) ==
  IF ~w.waitingForChoice \/ w.selectedTile = 0 THEN w
  ELSE IF ~Started(w, w.selectedTile) THEN w
  ELSE RevealTileWithFlip(
         [w EXCEPT !.gameOver = IF face = "bomb" THEN TRUE ELSE @,
                   !.waitingForChoice = FALSE, !.selectedTile = 0],
         w.selectedTile, face, TRUE, 0)

SetSelectedCardIsDiamond(w) == SetSelectedCard(w, "diamond")

SetSelectedCardIsBomb(w) == SetSelectedCard(w, "bomb")

\* a manual tap or a random pick lands on tile c
EnterWaitingState(w, c) ==
  HandleGameStateChange(HandleCardSelected(
    [w EXCEPT !.tiles[c].taped = TRUE, !.waitingForChoice = TRUE,
              !.selectedTile = c]))

UntapedCount(w) == Cardinality({c \in Cells : ~w.tiles[c].taped})

\* the pointertap handler of a tile without its auto-mode branch
TapTileIgnoringMode(w, c) ==
  IF w.gameOver \/ w.waitingForChoice \/ w.tiles[c].revealed
     \/ w.tiles[c].animating \/ UntapedCount(w) <= w.mines
  THEN w
  ELSE EnterWaitingState(w, c)

\* the pointertap handler of a tile
TapTile(w, c) ==
  IF w.controlPanelMode = "auto"
  THEN IF w.gameOver \/ w.tiles[c].revealed \/ w.tiles[c].animating THEN w
       ELSE IF c \notin w.autoSelectedTiles /\ UntapedCount(w) <= w.mines
       THEN w
       ELSE ToggleAutoTileSelection(w, c)
  ELSE IF w.gameOver \/ w.waitingForChoice \/ w.tiles[c].revealed
          \/ w.tiles[c].animating \/ UntapedCount(w) <= w.mines
       THEN w
       ELSE EnterWaitingState(w, c)

RandomCandidates(w) ==
  IF w.gameOver \/ w.waitingForChoice \/ UntapedCount(w) <= w.mines THEN {}
  ELSE {c \in Cells : ~w.tiles[c].taped /\ Started(w, c)}

\* selectRandomTile(): c is the candidate the random index falls on
SelectRandomTile(w, c) ==
  IF c \notin RandomCandidates(w) THEN w
  ELSE EnterWaitingState(w, c)

\* ---- main.js: auto-bet bookkeeping ----

\* setAutoRunUIState(true)
AutoRunUIActive(w) ==
  [w EXCEPT !.cp_autoStartMode =
               IF w.autoStopFinishing THEN "finish" ELSE "stop",
            !.cp_autoStartClickable = ~w.autoStopFinishing,
            !.cp_modeToggleClickable = FALSE,
            !.cp_minesClickable = FALSE,
            !.cp_numberOfBetsClickable = FALSE,
            !.cp_stopOnProfitClickable = FALSE,
            !.cp_stopOnLossClickable = FALSE]

\* setAutoRunUIState(false)
AutoRunUIIdle(w) ==
  HandleAutoSelectionChange(
    [w EXCEPT !.cp_autoStartMode = "start", !.autoStopFinishing = FALSE,
              !.cp_autoStartClickable = TRUE,
              !.cp_modeToggleClickable = TRUE,
              !.cp_numberOfBetsClickable = TRUE,
              !.cp_stopOnProfitClickable = TRUE,
              !.cp_stopOnLossClickable = TRUE,
              !.cp_minesClickable =
                 IF w.roundActive /\ ~w.minesSelectionLocked THEN TRUE ELSE @],
    w.autoSelectionCount)

SetAutoRunUIState(w, active) ==
  IF active THEN AutoRunUIActive(w) ELSE AutoRunUIIdle(w)

\* scheduleNextAutoBetRound without its clearTimeout(autoResetTimer)
ScheduleNextAutoBetRoundNotClearing(w) ==
  IF ~w.autoRunActive THEN w
  ELSE [w EXCEPT !.autoResetTimer = TRUE, !.resetTimers = @ + 1]

ScheduleNextAutoBetRound(w) ==
  IF ~w.autoRunActive THEN w
  ELSE [w EXCEPT !.autoResetTimer = TRUE,
                 !.resetTimers = ResetTimersCleared(w) + 1]

\* the budget has reached zero, autoRunFlag left as it is
BudgetExhaustedKeepingRunFlag(w) ==
  IF ~w.autoStopShouldComplete
  THEN SendRelayMessage(
         AutoRunUIActive([w EXCEPT !.autoStopShouldComplete = TRUE,
                                   !.autoStopFinishing = TRUE]),
         "action:stop-autobet")
  ELSE AutoRunUIActive([w EXCEPT !.autoStopShouldComplete = TRUE,
                                 !.autoStopFinishing = TRUE])

\* handleAutoRoundFinished: the budget has reached zero
BudgetExhausted(w) ==
  IF ~w.autoStopShouldComplete
  THEN SendRelayMessage(
         AutoRunUIActive([w EXCEPT !.autoRunFlag = FALSE,
                                   !.autoStopShouldComplete = TRUE,
                                   !.autoStopFinishing = TRUE]),
         "action:stop-autobet")
  ELSE AutoRunUIActive([w EXCEPT !.autoRunFlag = FALSE,
                                 !.autoStopShouldComplete = TRUE,
                                 !.autoStopFinishing = TRUE])

\* handleAutoRoundFinished once autoBetsRemaining is updated
AutoRoundCounted(w) ==
  IF IsFinite(w.autoBetsRemaining) /\ w.autoBetsRemaining <= 0
  THEN ScheduleNextAutoBetRound(BudgetExhausted(w))
  ELSE ScheduleNextAutoBetRound(w)

\* handleAutoRoundFinished without the decrement of the budget
HandleAutoRoundFinishedUncounted(w) ==
  IF ~w.autoRunActive THEN [w EXCEPT !.autoRoundInProgress = FALSE]
  ELSE AutoRoundCounted(
         [w EXCEPT !.autoRoundInProgress = FALSE,
                   !.called = @ \cup {"finished"}])

\* handleAutoRoundFinished decrementing without Math.max(0, ...)
HandleAutoRoundFinishedUnclamped(w) ==
  IF ~w.autoRunActive THEN [w EXCEPT !.autoRoundInProgress = FALSE]
  ELSE AutoRoundCounted(
         [w EXCEPT !.autoRoundInProgress = FALSE,
                   !.autoBetsRemaining = IF IsFinite(@) THEN @ - 1 ELSE @,
                   !.cp_numberOfBets =
                      IF IsFinite(w.autoBetsRemaining)
                      THEN Max(0, w.autoBetsRemaining - 1) ELSE @,
                   !.called = @ \cup {"finished"}])

\* handleAutoRoundFinished
HandleAutoRoundFinished(w) ==
  IF ~w.autoRunActive THEN [w EXCEPT !.autoRoundInProgress = FALSE]
  ELSE AutoRoundCounted(
         [w EXCEPT !.autoRoundInProgress = FALSE,
                   !.autoBetsRemaining =
                      IF IsFinite(@) THEN Max(0, @ - 1) ELSE @,
                   !.cp_numberOfBets =
                      IF IsFinite(w.autoBetsRemaining)
                      THEN Max(0, w.autoBetsRemaining - 1) ELSE @,
                   !.called = @ \cup {"finished"}])

\* markManualRoundForReset(); finalizeRound({ preserveAutoSelections })
MarkAndFinalizeRound(w) ==
  FinalizeRound(
    [w EXCEPT !.manualRoundNeedsReset =
                 IF w.controlPanelMode = "manual" THEN TRUE ELSE @],
    w.controlPanelMode = "auto")

HandleGameOver(w) ==
  HandleAutoRoundFinished(MarkAndFinalizeRound(Say(w, "onGameOver")))

\* revealRemainingTiles() is revealAllTiles() with its defaults
HandleGameWin(w, rank) ==
  HandleAutoRoundFinished(MarkAndFinalizeRound(
    RevealAllTiles(Say(w, "onWin"), 0, TRUE, rank)))

\* ---- game.js: batch reveal and reveal completion ----

FreeBatchIds(w) == (1..MaxBatches) \ DOMAIN w.batches

\* finalizeAutoWin of the batch `id`
FinalizeAutoWin(w, id, r1, r2) ==
  IF w.batches[id].winFinalized \/ w.batches[id].bombHit
     \/ w.batches[id].pendingReveals > 0
  THEN w
  ELSE IF w.revealedSafe < w.totalSafe
  THEN HandleGameWin(
         RevealAllTiles([w EXCEPT !.batches[id].winFinalized = TRUE],
                        0, FALSE, r1),
         r2)
  ELSE w

\* onComplete of a reveal started by the batch `id`
BatchOnComplete(w, id, r1, r2) ==
  FinalizeAutoWin(
    [w EXCEPT !.batches[id].pendingReveals = Max(0, @ - 1)], id, r1, r2)

\* revealAutoSelections, the loop over the entries: each unrevealed tile of
\* the results is deselected and, unless a flip of it is running, revealed
StartBatch(w, results, id) ==
  [w EXCEPT
     !.waitingForChoice = FALSE, !.selectedTile = 0,
     !.tiles = [c \in Cells |->
                  IF c \in DOMAIN results /\ ~w.tiles[c].revealed
                     /\ c \in w.autoSelectedTiles
                  THEN [w.tiles[c] EXCEPT !.taped = FALSE]
                  ELSE w.tiles[c]],
     !.autoSelectedTiles =
        @ \ {c \in DOMAIN results : ~w.tiles[c].revealed},
     !.reveals = @ \cup
        {Task(c, IF results[c] = "lost" THEN "bomb" ELSE "diamond",
              TRUE, id, "delay", 1)
           : c \in {d \in DOMAIN results : Started(w, d)}},
     !.batches = @ @@ (id :>
        [pendingReveals |->
           Cardinality({d \in DOMAIN results : Started(w, d)}),
         bombHit |-> \E c \in DOMAIN results :
                        ~w.tiles[c].revealed /\ results[c] = "lost",
         winFinalized |-> FALSE])]

\* revealAutoSelections after the loop: gameOver = true; onChange(getState())
BatchStarted(w) ==
  HandleGameStateChange(
    [w EXCEPT !.gameOver = TRUE, !.waitingForChoice = FALSE,
              !.called = @ \cup {"batch"}])

\* revealAutoSelections(results) with the closure `id`
RevealAutoSelectionsAs(w, results, id, r1, r2) ==
  FinalizeAutoWin(
    BatchStarted(ClearAutoSelections(StartBatch(w, results, id))),
    id, r1, r2)

\* revealAutoSelections(results): results maps cells to result strings
RevealAutoSelections(w, results, r1, r2) ==
  IF DOMAIN results = {} THEN w
  ELSE RevealAutoSelectionsAs(
         w, results,
         CHOOSE x \in FreeBatchIds(w) : \A y \in FreeBatchIds(w) : x <= y,
         r1, r2)

\* the stagger timer of revealAllTiles fires for the reveal t and calls
\* revealTileWithFlip, whose flip-delay timer then fires: the two timers are
\* one step, the state between them differing in nothing but the timer
StaggerTimerBody(w, t) ==
  IF ~Started(w, t.cell) THEN [w EXCEPT !.reveals = @ \ {t}]
  ELSE [w EXCEPT !.tiles[t.cell].animating = TRUE,
                 !.reveals = (@ \ {t}) \cup {[t EXCEPT !.phase = "tween"]}]

\* the flip-delay timer of revealTileWithFlip fires for the reveal t
FlipTimerBody(w, t, r1, r2) ==
  IF t.dead
  THEN BatchOnComplete([w EXCEPT !.reveals = @ \ {t}], t.batch, r1, r2)
  ELSE [w EXCEPT !.tiles[t.cell].animating = TRUE,
                 !.reveals = (@ \ {t}) \cup {[t EXCEPT !.phase = "tween"]}]

\* one frame of the flip tween of a destroyed tile
TweenUpdateDestroyed(w, t, r1, r2) == BatchOnComplete(w, t.batch, r1, r2)

\* complete callback, a tile revealed by the player: the tile is face up
PlayerRevealComplete(w, t, r1, r2) ==
  IF t.face = "bomb"
  THEN HandleGameStateChange(HandleGameOver(
         RevealAllTiles(w, t.cell, t.batch = 0, r1)))
  ELSE IF w.revealedSafe + 1 >= w.totalSafe
  THEN HandleGameStateChange(HandleGameWin(
         RevealAllTiles([w EXCEPT !.revealedSafe = @ + 1,
                                  !.gameOver = TRUE],
                        0, TRUE, r1),
         r2))
  ELSE HandleGameStateChange([w EXCEPT !.revealedSafe = @ + 1])

\* complete callback, the part under if (revealedByPlayer)
RevealComplete(w, t, r1, r2) ==
  IF t.byPlayer THEN PlayerRevealComplete(w, t, r1, r2) ELSE w

\* complete callback, the trailing onComplete?.(tile, ...)
RevealOnComplete(w, t, r1, r2) ==
  IF t.batch # 0 THEN BatchOnComplete(w, t.batch, r1, r2) ELSE w

\* the complete callback of the flip tween of the reveal t
TweenComplete(w, t, r1, r2) ==
  IF t.dead
  THEN BatchOnComplete([w EXCEPT !.reveals = @ \ {t}], t.batch, r1, r2)
  ELSE RevealOnComplete(
         RevealComplete(
           [w EXCEPT !.reveals = @ \ {t},
                     !.tiles[t.cell].animating = FALSE,
                     !.tiles[t.cell].revealed = TRUE,
                     !.tiles[t.cell].face = t.face],
           t, r1, r2),
         t, r1, r2)

\* ---- main.js: rounds and auto-bet ----

\* prepareForNewRoundState without setControlPanelBetMode("cashout")
NewRoundControlsKeepingBetMode(w) ==
  [w EXCEPT !.roundActive = TRUE, !.cashoutAvailable = FALSE,
            !.selectionDelayHandle = "none", !.selectionDelayCells = {},
            !.selectionTimers = SelectionTimersCleared(w),
            !.selectionPending = FALSE, !.cp_betClickable = FALSE,
            !.cp_randomClickable = TRUE, !.minesSelectionLocked = FALSE,
            !.manualRoundNeedsReset =
               IF w.controlPanelMode # "auto" THEN FALSE ELSE @,
            !.cp_minesClickable =
               IF w.controlPanelMode # "auto" THEN FALSE
               ELSE IF ~w.autoRunActive THEN TRUE ELSE @,
            !.cp_modeToggleClickable =
               IF w.controlPanelMode # "auto" THEN FALSE
               ELSE IF ~w.autoRunActive THEN TRUE ELSE @]

\* prepareForNewRoundState up to the preserveAutoSelections test
NewRoundControls(w) ==
  [w EXCEPT !.roundActive = TRUE, !.cashoutAvailable = FALSE,
            !.selectionDelayHandle = "none", !.selectionDelayCells = {},
            !.selectionTimers = SelectionTimersCleared(w),
            !.selectionPending = FALSE,
            !.betButtonMode = "cashout", !.cp_betClickable = FALSE,
            !.cp_randomClickable = TRUE, !.minesSelectionLocked = FALSE,
            !.manualRoundNeedsReset =
               IF w.controlPanelMode # "auto" THEN FALSE ELSE @,
            !.cp_minesClickable =
               IF w.controlPanelMode # "auto" THEN FALSE
               ELSE IF ~w.autoRunActive THEN TRUE ELSE @,
            !.cp_modeToggleClickable =
               IF w.controlPanelMode # "auto" THEN FALSE
               ELSE IF ~w.autoRunActive THEN TRUE ELSE @]

PrepareForNewRoundState(w, preserveAutoSelections) ==
  IF preserveAutoSelections
  THEN RefreshAutoSelectionCount(NewRoundControls(w), TRUE)
  ELSE ClearAutoSelections(
         RefreshAutoSelectionCount(NewRoundControls(w), FALSE))

\* stopAutoBetProcess, the end of its preserving branch
ReapplyStoredSelections(w) ==
  IF w.storedAutoSelections # {}
  THEN ApplyAutoSelectionsFromCoordinates(w, w.storedAutoSelections)
  ELSE w

\* stopAutoBetProcess of a run that was active or has completed, auto mode
StopPreserving(w) ==
  ReapplyStoredSelections(PrepareForNewRoundState(
    AutoRunUIIdle(ResetPreserving(FinalizeRound(
      [w EXCEPT !.storedAutoSelections =
                   IF w.autoSelectedTiles # {} THEN w.autoSelectedTiles
                   ELSE @],
      TRUE))),
    TRUE))

\* stopAutoBetProcess of a run that was active or has completed, manual mode
StopClearing(w) == AutoRunUIIdle(ResetBoard(FinalizeRound(w, FALSE)))

\* stopAutoBetProcess once the timers and the flags are cleared
AutoBetStopped(w, wasActive, completed) ==
  IF ~wasActive /\ ~completed
  THEN HandleAutoSelectionChange([w EXCEPT !.autoStopFinishing = FALSE],
                                 w.autoSelectionCount)
  ELSE IF w.controlPanelMode = "auto" THEN StopPreserving(w)
  ELSE StopClearing(w)

StopAutoBetProcess(w, completed) ==
  AutoBetStopped(
    [w EXCEPT !.selectionDelayHandle = "none", !.selectionDelayCells = {},
              !.selectionTimers = SelectionTimersCleared(w),
              !.selectionPending =
                 IF w.selectionDelayHandle # "none" THEN FALSE ELSE @,
              !.autoResetTimer = FALSE,
              !.resetTimers = ResetTimersCleared(w),
              !.autoRunActive = FALSE,
              !.autoRunFlag = FALSE, !.autoRoundInProgress = FALSE,
              !.autoStopShouldComplete = FALSE],
    w.autoRunActive, completed)

\* startAutoRoundIfNeeded() without the reset of a finished round
StartAutoRoundIfNeededNoReset(w) ==
  ReapplyStoredSelections(w)

\* startAutoRoundIfNeeded(), called with a non-empty stored selection
StartAutoRoundIfNeeded(w) ==
  IF ~w.roundActive
  THEN ReapplyStoredSelections(
         PrepareForNewRoundState(ResetPreserving(w), TRUE))
  ELSE ReapplyStoredSelections(w)

\* executeAutoBetRound from autoRoundInProgress = true on
AutoRoundRequested(w) ==
  IF ~w.demoMode /\ ~w.suppressRelay
  THEN SendRelayMessage(w, "game:auto-round-request")
  ELSE [w EXCEPT !.selectionDelayHandle = "auto",
                 !.selectionTimers = @ + 1,
                 !.selectionDelayCells = w.storedAutoSelections]

\* executeAutoBetRound once the round is prepared
AutoBetRoundPrepared(w) ==
  IF w.storedAutoSelections = {} THEN StopAutoBetProcess(w, FALSE)
  ELSE AutoRoundRequested(
         [w EXCEPT !.autoRoundInProgress = TRUE,
                   !.selectionDelayHandle = "none",
                   !.selectionTimers = SelectionTimersCleared(w),
                   !.selectionDelayCells = {},
                   !.selectionPending = FALSE,
                   !.cp_betClickable = FALSE,
                   !.cp_randomClickable = FALSE,
                   !.cp_minesClickable = FALSE,
                   !.cp_autoStartClickable = ~w.autoStopFinishing,
                   !.cyclesRun = IF IsFinite(w.sessionBets)
                                 THEN Min(MaxBets + 1, @ + 1) ELSE @,
                   !.called = @ \cup {"cycle"}])

ExecuteAutoBetRound(w, ensurePrepared) ==
  IF ~w.autoRunActive THEN w
  ELSE IF w.storedAutoSelections # {} /\ ensurePrepared
  THEN AutoBetRoundPrepared(StartAutoRoundIfNeeded(w))
  ELSE AutoBetRoundPrepared(w)

\* beginAutoBetProcess from autoRunFlag = true on
AutoBetBegun(w) ==
  ExecuteAutoBetRound(
    AutoRunUIActive(
      SendRelayMessage(SendRelayMessage(w, "control:start-autobet"),
                       "action:start-autobet")),
    TRUE)

\* beginAutoBetProcess without its two early returns
BeginAutoBetProcessUnguarded(w) ==
  AutoBetBegun(
         [w EXCEPT !.storedAutoSelections = w.autoSelectedTiles,
                   !.autoBetsRemaining =
                      IF w.cp_numberOfBets > 0 THEN w.cp_numberOfBets
                      ELSE Infinity,
                   !.autoRunFlag = TRUE, !.autoRunActive = TRUE,
                   !.autoRoundInProgress = FALSE,
                   !.autoStopShouldComplete = FALSE,
                   !.autoStopFinishing = FALSE,
                   !.sessionBets =
                      IF w.cp_numberOfBets > 0 THEN w.cp_numberOfBets
                      ELSE Infinity,
                   !.cyclesRun = 0])

\* beginAutoBetProcess; getNumberOfBetsValue() is 0 unless the input holds
\* a positive number
BeginAutoBetProcess(w) ==
  IF w.selectionPending \/ w.autoSelectionCount <= 0 THEN w
  ELSE IF w.autoSelectedTiles = {} THEN w
  ELSE AutoBetBegun(
         [w EXCEPT !.storedAutoSelections = w.autoSelectedTiles,
                   !.autoBetsRemaining =
                      IF w.cp_numberOfBets > 0 THEN w.cp_numberOfBets
                      ELSE Infinity,
                   !.autoRunFlag = TRUE, !.autoRunActive = TRUE,
                   !.autoRoundInProgress = FALSE,
                   !.autoStopShouldComplete = FALSE,
                   !.autoStopFinishing = FALSE,
                   !.sessionBets =
                      IF w.cp_numberOfBets > 0 THEN w.cp_numberOfBets
                      ELSE Infinity,
                   !.cyclesRun = 0])

\* the callback of the timer armed by scheduleNextAutoBetRound
AutoResetTimerBody(w) ==
  IF ~w.autoRunActive
  THEN [w EXCEPT !.autoResetTimer = FALSE, !.resetTimers = @ - 1]
  ELSE IF ~w.autoRunFlag \/ w.autoStopShouldComplete
  THEN IF ~w.demoMode /\ ~w.suppressRelay
          /\ w.controlPanelMode = "auto" /\ w.autoStopFinishing
       THEN [w EXCEPT !.autoResetTimer = FALSE, !.resetTimers = @ - 1]
       ELSE StopAutoBetProcess(
              [w EXCEPT !.autoResetTimer = FALSE,
                        !.resetTimers = @ - 1,
                        !.autoStopShouldComplete = FALSE],
              w.autoStopShouldComplete)
  ELSE ExecuteAutoBetRound(
         AutoRunUIActive([w EXCEPT !.autoResetTimer = FALSE,
                                   !.resetTimers = @ - 1,
                                   !.autoStopFinishing = FALSE]),
         TRUE)

HandleStartAutobetClick(w) ==
  IF w.autoRunActive
  THEN IF ~w.autoStopFinishing
       THEN SendRelayMessage(
              AutoRunUIActive([w EXCEPT !.autoRunFlag = FALSE,
                                        !.autoStopFinishing = TRUE]),
              "action:stop-autobet")
       ELSE w
  ELSE IF w.controlPanelMode # "auto" THEN w
  ELSE BeginAutoBetProcess(w)

HandleCashout(w, rank) ==
  IF ~w.roundActive \/ ~w.cashoutAvailable THEN w
  ELSE IF ~w.demoMode /\ ~w.suppressRelay
  THEN SendRelayMessage(w, "action:cashout")
  ELSE MarkAndFinalizeRound(RevealAllTiles(w, 0, TRUE, rank))

NormalizeMinesValue(value, maxMines) == Min(Max(1, value), maxMines)

ApplyMinesOption(w, value, syncGame) ==
  IF syncGame THEN SetMines(w, NormalizeMinesValue(value, NumCells - 1))
  ELSE w

PerformBet(w) ==
  [PrepareForNewRoundState(ApplyMinesOption(w, w.cp_mines, TRUE), FALSE)
     EXCEPT !.manualRoundNeedsReset = FALSE]

BetRequested(w) ==
  IF ~w.demoMode /\ ~w.suppressRelay
  THEN SendRelayMessage(DisableServerRoundSetupControls(w), "action:bet")
  ELSE PerformBet(w)

HandleBet(w) == BetRequested(Say(w, "handleBet"))

HandleBetButtonClick(w, rank) ==
  IF w.betButtonMode = "cashout"
  THEN HandleCashout(Say(w, "cashout"), rank)
  ELSE HandleBet(w)

HandleRandomPickClick(w, c) ==
  IF ~w.roundActive \/ w.selectionPending THEN w
  ELSE SelectRandomTile(w, c)

SetDemoMode(w, next) ==
  IF w.demoMode = next THEN w
  ELSE IF next THEN ClearSelectionDelay([w EXCEPT !.demoMode = next])
  ELSE [w EXCEPT !.demoMode = next]

ApplyServerReveal(w, result) ==
  IF result = "lost" THEN SetSelectedCardIsBomb(ClearSelectionDelay(w))
  ELSE SetSelectedCardIsDiamond(ClearSelectionDelay(w))

ApplyAutoResultsFromServer(w, results, r1, r2) ==
  RevealAutoSelections(ClearSelectionDelay(w), results, r1, r2)

\* The largest amount, in whole units, a profit or a threshold takes.
MaxAmount == 1

\* setTotalProfitAmountValue(value): normalizeTotalProfitAmount clamps at 0
SetTotalProfitAmountValue(w, value) ==
  [w EXCEPT !.totalProfitAmountDisplayValue = Max(0, value)]

\* the inbound messages that ask for a wager to start or to be cashed out
Requests == {"start-bet", "cashout"}

\* The switch with a cashout case that cashes out whatever the state is.
IncomingSwitchCashoutUnguarded(w, msg, r1, r2) ==
  CASE msg.type = "start-bet" ->
         SetControlPanelRandomState(PerformBet(w), TRUE)
    [] msg.type = "bet-result" -> ApplyServerReveal(w, msg.result)
    [] msg.type = "auto-bet-result" ->
         ApplyAutoResultsFromServer(w, msg.results, r1, r2)
    [] msg.type = "stop-autobet" -> StopAutoBetProcess(w, msg.completed)
    [] msg.type = "finalize-bet" ->
         FinalizeRound(w, w.controlPanelMode = "auto")
    [] msg.type = "profit:update-total" ->
         SetTotalProfitAmountValue(w, msg.value)
    [] msg.type = "cashout" ->
         MarkAndFinalizeRound(RevealAllTiles(w, 0, TRUE, r1))
    [] OTHER -> w

\* the switch of the "incoming" listener
IncomingSwitch(w, msg, r1, r2) ==
  CASE msg.type = "start-bet" ->
         SetControlPanelRandomState(PerformBet(w), TRUE)
    [] msg.type = "bet-result" -> ApplyServerReveal(w, msg.result)
    [] msg.type = "auto-bet-result" ->
         ApplyAutoResultsFromServer(w, msg.results, r1, r2)
    [] msg.type = "stop-autobet" -> StopAutoBetProcess(w, msg.completed)
    [] msg.type = "finalize-bet" ->
         FinalizeRound(w, w.controlPanelMode = "auto")
    [] msg.type = "profit:update-total" ->
         SetTotalProfitAmountValue(w, msg.value)
    [] msg.type = "cashout" ->
         IF w.roundActive /\ w.cashoutAvailable
         THEN HandleCashout(w, r1) ELSE w
    [] OTHER -> w

\* The "incoming" listener with its switch run outside withRelaySuppressed.
IncomingListenerUnsuppressed(w, msg, r1, r2) ==
  [IncomingSwitch([w EXCEPT !.inbound = @ + 1,
                            !.called = {msg.type} \cap Requests,
                            !.asked = @ /\ msg.type # "bet-result"],
                  msg, r1, r2)
     EXCEPT !.suppressRelay = FALSE]

\* withRelaySuppressed(fn) around the switch of the "incoming" listener: the
\* flag is set for the switch and cleared in the finally clause
IncomingListener(w, msg, r1, r2) ==
  [IncomingSwitch([w EXCEPT !.suppressRelay = TRUE, !.inbound = @ + 1,
                            !.called = {msg.type} \cap Requests,
                            !.asked = @ /\ msg.type # "bet-result"],
                  msg, r1, r2)
     EXCEPT !.suppressRelay = FALSE]

\* "modechange" listener, the branch to manual
ModeToManual(w) ==
  IF w.autoRunActive
  THEN FinalizeRound(ClearAutoSelections(
         SetControlPanelAutoStartState(
           [StopAutoBetProcess(w, FALSE) EXCEPT !.autoSelectionCount = 0],
           FALSE)), FALSE)
  ELSE FinalizeRound(ClearAutoSelections(
         SetControlPanelAutoStartState(
           [w EXCEPT !.autoSelectionCount = 0], FALSE)), FALSE)

\* "modechange" listener, the end of the branch to auto
StoredSelectionChanged(w) ==
  HandleAutoSelectionChange(w, Cardinality(w.storedAutoSelections))

AutoModeEntered(w) == StoredSelectionChanged(ReapplyStoredSelections(w))

\* "modechange" listener, the branch to auto after the optional reset
ModeToAutoPrepared(w) ==
  IF ~w.roundActive /\ ~w.autoRunActive
  THEN AutoModeEntered(PrepareForNewRoundState(w, TRUE))
  ELSE AutoModeEntered(w)

\* "modechange" listener, the branch to auto
ModeToAuto(w, previousMode) ==
  IF previousMode = "manual" /\ w.manualRoundNeedsReset
  THEN ModeToAutoPrepared(
         [ResetPreserving(w) EXCEPT !.manualRoundNeedsReset = FALSE])
  ELSE ModeToAutoPrepared(w)

\* the "modechange" listener of the Mines control panel
ModeChangeListener(w, nextMode) ==
  IF nextMode # "auto"
  THEN ModeToManual(
         [w EXCEPT !.storedAutoSelections =
                      IF w.controlPanelMode = "auto"
                      THEN w.autoSelectedTiles ELSE @,
                   !.controlPanelMode = nextMode])
  ELSE ModeToAuto(
         [w EXCEPT !.storedAutoSelections =
                      IF w.controlPanelMode = "auto"
                      THEN w.autoSelectedTiles ELSE @,
                   !.controlPanelMode = nextMode],
         w.controlPanelMode)

\* the "mineschanged" listener
MinesChangedListener(w, value) ==
  SendRelayMessage(
    ApplyMinesOption([w EXCEPT !.cp_mines = value], value,
                     w.controlPanelMode = "auto" /\ ~w.autoRunActive
                       /\ ~w.autoRoundInProgress),
    "control:mines")

\* the "numberofbetschange" listener
NumberOfBetsChangedListener(w, value) ==
  SendRelayMessage([w EXCEPT !.cp_numberOfBets = value],
                   "control:number-of-bets")

\* the "stoponprofitchange" listener
StopOnProfitChangedListener(w, value) ==
  SendRelayMessage([w EXCEPT !.cp_stopOnProfit = value],
                   "control:stop-on-profit")

\* the "stoponlosschange" listener
StopOnLossChangedListener(w, value) ==
  SendRelayMessage([w EXCEPT !.cp_stopOnLoss = value],
                   "control:stop-on-loss")

\* the timer armed by handleCardSelected
ManualSelectionTimerBody(w, revealBomb) ==
  IF ~w.roundActive
  THEN [w EXCEPT !.selectionDelayHandle = "none",
                 !.selectionTimers = @ - 1,
                 !.selectionDelayCells = {}, !.selectionPending = FALSE]
  ELSE [SetSelectedCard([w EXCEPT !.selectionDelayHandle = "none",
                 !.selectionTimers = @ - 1,
                                  !.selectionDelayCells = {}],
                        IF revealBomb THEN "bomb" ELSE "diamond")
          EXCEPT !.selectionPending = FALSE]

\* the results executeAutoBetRound draws in demo mode: at most one "bomb"
DemoResults(cells, bombAt) ==
  [c \in cells |-> IF c = bombAt THEN "bomb" ELSE "diamond"]

\* the timer armed by executeAutoBetRound
AutoSelectionTimerBody(w, bombAt, r1, r2) ==
  IF ~w.autoRunActive \/ ~w.roundActive
  THEN [w EXCEPT !.selectionDelayHandle = "none",
                 !.selectionTimers = @ - 1,
                 !.selectionDelayCells = {}, !.selectionPending = FALSE,
                 !.autoRoundInProgress = FALSE]
  ELSE RevealAutoSelections(
         [w EXCEPT !.selectionDelayHandle = "none",
                 !.selectionTimers = @ - 1,
                   !.selectionDelayCells = {}, !.selectionPending = FALSE],
         DemoResults(w.selectionDelayCells, bombAt), r1, r2)

\* ---- events of the Mines controller ----

\* opts.mines
OptMines == 5

\* The values an inbound result field is drawn from, as lower-cased by the
\* handlers ("none" stands for a missing or unrecognised value).
ServerResults == {"lost", "win", "none"}

\* Inbound messages of a round: type and the payload fields the controller
\* reads.
RoundMessages ==
  {[type |-> "start-bet"], [type |-> "finalize-bet"], [type |-> "cashout"]}
  \cup {[type |-> "bet-result", result |-> r] : r \in ServerResults}

\* Inbound messages of auto-play.  The results answer the selections of the
\* last request (each entry won or lost) or are an empty list.
AutoMessages(w) ==
  {[type |-> "stop-autobet", completed |-> b] : b \in BOOLEAN}
  \cup {[type |-> "auto-bet-result", results |-> f] :
          f \in [w.storedAutoSelections -> ServerResults] \cup {<<>>}}

\* click on the bet button (shown in manual mode, disabled when non-clickable)
BetButtonClick ==
  /\ cp_betClickable /\ controlPanelMode = "manual"
  /\ \E rank \in Shuffles(W, betButtonMode = "cashout") :
       Commit(HandleBetButtonClick(W, rank))

\* click on the random-pick button
RandomPickClick ==
  /\ cp_randomClickable /\ controlPanelMode = "manual"
  /\ \E c \in Cells :
       /\ RandomCandidates(W) # {} => c \in RandomCandidates(W)
       /\ Commit(HandleRandomPickClick(W, c))

\* tap on a tile of the board in manual mode: a pick
TileTap ==
  /\ controlPanelMode = "manual"
  /\ \E c \in Cells : Commit(TapTile(W, c))

\* tap on a tile of the board in auto mode: the tile joins or leaves the
\* auto selection
AutoTileTap ==
  /\ controlPanelMode = "auto"
  /\ \E c \in Cells : Commit(TapTile(W, c))

\* click on the start/stop autobet button (shown in auto mode)
StartAutobetClick ==
  /\ cp_autoStartClickable /\ controlPanelMode = "auto"
  /\ Commit(HandleStartAutobetClick(W))

\* click on the autobet button while it reads "start"
AutobetStartClick == ~autoRunActive /\ StartAutobetClick

\* click on a mode button: ControlPanel.setMode dispatches on a change only
ModeChange ==
  /\ cp_modeToggleClickable
  /\ \E m \in Modes : m # controlPanelMode /\ Commit(ModeChangeListener(W, m))

\* the player picks another mines count
MinesChanged ==
  /\ cp_minesClickable
  /\ \E v \in 1..(NumCells - 1) :
       v # cp_mines /\ Commit(MinesChangedListener(W, v))

\* the player types a number of bets (0 shows as the infinity icon)
NumberOfBetsChanged ==
  /\ cp_numberOfBetsClickable /\ controlPanelMode = "auto"
  /\ \E v \in 0..MaxBets :
       v # cp_numberOfBets /\ Commit(NumberOfBetsChangedListener(W, v))

\* the player types an amount in the stop-on-profit field (0: none)
StopOnProfitChanged ==
  /\ cp_stopOnProfitClickable /\ controlPanelMode = "auto"
  /\ \E v \in 0..MaxAmount :
       v # cp_stopOnProfit /\ Commit(StopOnProfitChangedListener(W, v))

\* the player types an amount in the stop-on-loss field (0: none)
StopOnLossChanged ==
  /\ cp_stopOnLossClickable /\ controlPanelMode = "auto"
  /\ \E v \in 0..MaxAmount :
       v # cp_stopOnLoss /\ Commit(StopOnLossChangedListener(W, v))

\* the demo-mode checkbox of the dummy server is toggled
DemoToggle == Commit(SetDemoMode(W, ~demoMode))

\* the relay delivers the inbound message msg
Deliver(msg) ==
  /\ inbound < MaxInbound
  /\ msg.type = "auto-bet-result" => FreeBatchIds(W) # {}
  /\ \E r1, r2 \in Shuffles(W, msg.type \in {"auto-bet-result", "cashout"}) :
       Commit(IncomingListener(W, msg, r1, r2))

\* the relay delivers a message of a round
IncomingRoundMessage == \E msg \in RoundMessages : Deliver(msg)

\* the relay delivers a message of auto-play
IncomingAutoMessage == \E msg \in AutoMessages(W) : Deliver(msg)

\* the "Update Profit" button of the dummy server: the total changes
ProfitUpdateTotal ==
  \E v \in (0 - MaxAmount)..MaxAmount :
    /\ Max(0, v) # totalProfitAmountDisplayValue
    /\ Deliver([type |-> "profit:update-total", value |-> v])

\* the operator switches the demo mode off while auto-play is idle
GoLive == demoMode /\ ~autoRunActive /\ DemoToggle

\* the server answers the auto-round request of the cycle in flight
ServerAutoBetResult ==
  /\ ~demoMode /\ autoRunActive /\ autoRoundInProgress /\ ~gameOver
  /\ \E f \in [storedAutoSelections -> ServerResults] :
       Deliver([type |-> "auto-bet-result", results |-> f])

\* the server confirms the stop request of a running session
ServerStopAutobet ==
  /\ ~demoMode /\ autoRunActive /\ autoStopFinishing
  /\ \E b \in BOOLEAN : Deliver([type |-> "stop-autobet", completed |-> b])

\* the selection-delay timer of a manual pick fires
ManualSelectionTimerFires ==
  /\ selectionDelayHandle = "manual"
  /\ \E revealBomb \in BOOLEAN :
       Commit(ManualSelectionTimerBody(W, revealBomb))

\* the selection-delay timer of an auto cycle fires
AutoSelectionTimerFires ==
  /\ selectionDelayHandle = "auto"
  /\ FreeBatchIds(W) # {}
  /\ \E bombAt \in selectionDelayCells \cup {0} :
       \E r1, r2 \in Shuffles(W, TRUE) :
         Commit(AutoSelectionTimerBody(W, bombAt, r1, r2))

\* the inter-cycle reset timer fires
AutoResetTimerFires ==
  /\ autoResetTimer
  /\ Commit(AutoResetTimerBody(W))

\* The reveals revealAllTiles starts take the same time each and start in
\* tile order: of those in one phase, the one of the first tile moves first.
InTurn(t) ==
  t.byPlayer \/ \A u \in reveals :
                  (~u.byPlayer /\ u.phase = t.phase) => u.cell >= t.cell

StaggerTimerFires ==
  \E t \in reveals :
    t.phase = "stagger" /\ InTurn(t) /\ Commit(StaggerTimerBody(W, t))

FlipTimerFires ==
  \E t \in reveals : \E r1, r2 \in Shuffles(W, t.dead) :
    t.phase = "delay" /\ InTurn(t) /\ Commit(FlipTimerBody(W, t, r1, r2))

TweenUpdatesDestroyed ==
  \E t \in reveals : \E r1, r2 \in Shuffles(W, TRUE) :
    t.phase = "tween" /\ t.dead /\ Commit(TweenUpdateDestroyed(W, t, r1, r2))

TweenCompletes ==
  \E t \in reveals : \E r1, r2 \in Shuffles(W, t.dead \/ t.byPlayer) :
    t.phase = "tween" /\ InTurn(t) /\ Commit(TweenComplete(W, t, r1, r2))

\* Module-level initial values of main.js and the board createGame builds.
RawWorld ==
  [demoMode |-> TRUE, suppressRelay |-> FALSE, betButtonMode |-> "bet",
   roundActive |-> FALSE, cashoutAvailable |-> FALSE,
   selectionDelayHandle |-> "none", selectionDelayCells |-> {},
   selectionPending |-> FALSE, minesSelectionLocked |-> FALSE,
   controlPanelMode |-> "manual", autoSelectionCount |-> 0,
   storedAutoSelections |-> {}, autoRunActive |-> FALSE,
   autoRunFlag |-> FALSE, autoRoundInProgress |-> FALSE,
   autoBetsRemaining |-> Infinity, autoResetTimer |-> FALSE,
   selectionTimers |-> 0, resetTimers |-> 0,
   autoStopShouldComplete |-> FALSE, autoStopFinishing |-> FALSE,
   manualRoundNeedsReset |-> FALSE,
   cp_betClickable |-> TRUE, cp_randomClickable |-> TRUE,
   cp_autoStartClickable |-> FALSE, cp_minesClickable |-> TRUE,
   cp_modeToggleClickable |-> TRUE, cp_numberOfBetsClickable |-> TRUE,
   cp_autoStartMode |-> "start",
   cp_mines |-> NormalizeMinesValue(OptMines, NumCells - 1),
   cp_numberOfBets |-> 0, totalProfitAmountDisplayValue |-> 0,
   cp_stopOnProfitClickable |-> TRUE, cp_stopOnLossClickable |-> TRUE,
   cp_stopOnProfit |-> 0, cp_stopOnLoss |-> 0,
   mines |-> NormalizeMinesValue(OptMines, NumCells - 1),
   tiles |-> [c \in Cells |-> FreshTile], bombPositions |-> {},
   gameOver |-> FALSE, revealedSafe |-> 0,
   totalSafe |-> NumCells - NormalizeMinesValue(OptMines, NumCells - 1),
   waitingForChoice |-> FALSE, selectedTile |-> 0, autoSelectedTiles |-> {},
   reveals |-> {}, batches |-> <<>>, sent |-> {}, called |-> {},
   inbound |-> 0, sessionBets |-> Infinity, cyclesRun |-> 0,
   asked |-> FALSE]

\* The state main.js leaves behind: finalizeRound() and
\* handleAutoSelectionChange(autoSelectionCount) end the initialisation.
InitialWorld ==
  [HandleAutoSelectionChange(FinalizeRound(RawWorld, FALSE), 0)
     EXCEPT !.called = {}]

\* the variables hold the fields of the record n
InitAs(n) ==
  /\ demoMode = n.demoMode
  /\ suppressRelay = n.suppressRelay
  /\ betButtonMode = n.betButtonMode
  /\ roundActive = n.roundActive
  /\ cashoutAvailable = n.cashoutAvailable
  /\ selectionDelayHandle = n.selectionDelayHandle
  /\ selectionDelayCells = n.selectionDelayCells
  /\ selectionPending = n.selectionPending
  /\ minesSelectionLocked = n.minesSelectionLocked
  /\ controlPanelMode = n.controlPanelMode
  /\ autoSelectionCount = n.autoSelectionCount
  /\ storedAutoSelections = n.storedAutoSelections
  /\ autoRunActive = n.autoRunActive
  /\ autoRunFlag = n.autoRunFlag
  /\ autoRoundInProgress = n.autoRoundInProgress
  /\ autoBetsRemaining = n.autoBetsRemaining
  /\ autoResetTimer = n.autoResetTimer
  /\ selectionTimers = n.selectionTimers
  /\ resetTimers = n.resetTimers
  /\ autoStopShouldComplete = n.autoStopShouldComplete
  /\ autoStopFinishing = n.autoStopFinishing
  /\ manualRoundNeedsReset = n.manualRoundNeedsReset
  /\ cp_betClickable = n.cp_betClickable
  /\ cp_randomClickable = n.cp_randomClickable
  /\ cp_autoStartClickable = n.cp_autoStartClickable
  /\ cp_minesClickable = n.cp_minesClickable
  /\ cp_modeToggleClickable = n.cp_modeToggleClickable
  /\ cp_numberOfBetsClickable = n.cp_numberOfBetsClickable
  /\ cp_autoStartMode = n.cp_autoStartMode
  /\ cp_mines = n.cp_mines
  /\ cp_numberOfBets = n.cp_numberOfBets
  /\ totalProfitAmountDisplayValue = n.totalProfitAmountDisplayValue
  /\ cp_stopOnProfitClickable = n.cp_stopOnProfitClickable
  /\ cp_stopOnLossClickable = n.cp_stopOnLossClickable
  /\ cp_stopOnProfit = n.cp_stopOnProfit
  /\ cp_stopOnLoss = n.cp_stopOnLoss
  /\ mines = n.mines
  /\ tiles = n.tiles
  /\ bombPositions = n.bombPositions
  /\ gameOver = n.gameOver
  /\ revealedSafe = n.revealedSafe
  /\ totalSafe = n.totalSafe
  /\ waitingForChoice = n.waitingForChoice
  /\ selectedTile = n.selectedTile
  /\ autoSelectedTiles = n.autoSelectedTiles
  /\ reveals = n.reveals
  /\ batches = n.batches
  /\ sent = n.sent
  /\ called = n.called
  /\ inbound = n.inbound
  /\ sessionBets = n.sessionBets
  /\ cyclesRun = n.cyclesRun
  /\ asked = n.asked

MInit == InitAs(InitialWorld)

\* ---- main.js 40-130: the layout builders of the scratch card ----

\* Cells of a scratch card: new Array(9).
LayoutCells == 9
\* Cells buildWinningAssignments gives to the winning type.
WinningCells == 3
\* The most cells a builder gives to a type it picks at random.
TypeCap == 2
\* The fewest card types the controller passes: Math.max(5, ...).
MinCardTypes == 5
\* The most card types the control panel offers.
MaxCardTypes == 6
\* Stands for NaN: Number(payload.winningCardTypeId) of a non-numeric value.
NaN == -2
\* Stands for null: the winningCardTypeId of a losing round.
Null == -3

CardTypeCounts == MinCardTypes..MaxCardTypes

CardTypes(count) == 0..(count - 1)

Positions == 0..(LayoutCells - 1)

\* The winning type ids a caller passes: what Math.floor(Math.random() *
\* totalTypes) or the server's winningCardTypeId can be.
WinningTypeIds(count) == {NaN} \cup (-1..count)

\* Math.max(0, Math.min(cardTypeCount - 1, winningTypeId))
ClampWinningType(count, winningTypeId) ==
  IF winningTypeId = NaN THEN NaN
  ELSE Max(0, Min(count - 1, winningTypeId))

\* The values Math.floor(Math.random() * (i + 1)) takes in one call of
\* shuffle, for i = 8 down to 1: always 0, always i, always the middle.
ShuffleDraws ==
  {[i \in 1..(LayoutCells - 1) |-> 0], [i \in 1..(LayoutCells - 1) |-> i],
   [i \in 1..(LayoutCells - 1) |-> i \div 2]}

Swapped(copy, i, j) == [copy EXCEPT ![i] = copy[j], ![j] = copy[i]]

RECURSIVE ShuffleFrom(_, _, _)
\* the loop of shuffle from index i down
ShuffleFrom(copy, i, draw) ==
  IF i < 1 THEN copy
  ELSE ShuffleFrom(Swapped(copy, i, draw[i]), i - 1, draw)

\* shuffle([...Array(9).keys()]) with the random indices draw
Shuffle(draw) == ShuffleFrom([p \in Positions |-> p], LayoutCells - 1, draw)

\* The candidates without the test counts[type] < 2.
WinningCandidatesUncapped ==
  CardTypes(lay_cardTypeCount) \ {lay_winningType}

\* the candidates of buildWinningAssignments for the cell at the cursor
WinningCandidates ==
  IF {t \in CardTypes(lay_cardTypeCount) :
        t # lay_winningType /\ lay_counts[t] < TypeCap} = {}
  THEN {lay_winningType}
  ELSE {t \in CardTypes(lay_cardTypeCount) :
          t # lay_winningType /\ lay_counts[t] < TypeCap}

\* The candidates without the test counts[type] < 2.
LosingCandidatesUncapped == CardTypes(lay_cardTypeCount)

\* the candidates of buildLosingAssignments for cell i
LosingCandidates ==
  {t \in CardTypes(lay_cardTypeCount) : lay_counts[t] < TypeCap}

\* counts[choice] += 1
Counted(counts, choice) ==
  [t \in DOMAIN counts \cup {choice} |->
     IF t = choice
     THEN (IF t \in DOMAIN counts THEN counts[t] ELSE 0) + 1
     ELSE counts[t]]

\* buildWinningAssignments(cardTypeCount, winningTypeId) up to its loop
BuildWinningAssignmentsCalled ==
  /\ lay_fn = "none"
  /\ \E count \in CardTypeCounts, draw \in ShuffleDraws :
       \E id \in WinningTypeIds(count) :
         /\ lay_fn' = "win"
         /\ lay_cardTypeCount' = count
         /\ lay_winningType' = ClampWinningType(count, id)
         /\ lay_positions' = Shuffle(draw)
         /\ lay_assignments' =
              [p \in Positions |->
                 IF \E k \in 0..(WinningCells - 1) : Shuffle(draw)[k] = p
                 THEN ClampWinningType(count, id) ELSE 0]
         /\ lay_counts' =
              [t \in CardTypes(count) \cup {ClampWinningType(count, id)} |->
                 IF t = ClampWinningType(count, id) THEN WinningCells ELSE 0]
         /\ lay_cursor' = WinningCells
         /\ lay_returned' = FALSE
  /\ UNCHANGED <<scVars, mVars>>

\* one turn of the while loop of buildWinningAssignments; the builder
\* returns when the cursor reaches the end
WinningCellAssigned ==
  /\ lay_fn = "win" /\ lay_cursor < LayoutCells
  /\ \E choice \in WinningCandidates :
       /\ lay_assignments' =
            [lay_assignments EXCEPT ![lay_positions[lay_cursor]] = choice]
       /\ lay_counts' = Counted(lay_counts, choice)
  /\ lay_cursor' = lay_cursor + 1
  /\ lay_returned' = (lay_cursor + 1 >= LayoutCells)
  /\ UNCHANGED <<lay_fn, lay_cardTypeCount, lay_winningType, lay_positions,
                 scVars, mVars>>

\* buildLosingAssignments(cardTypeCount) up to its loop
BuildLosingAssignmentsCalled ==
  /\ lay_fn = "none"
  /\ \E count \in CardTypeCounts :
       /\ lay_cardTypeCount' = count
       /\ lay_counts' = [t \in CardTypes(count) |-> 0]
  /\ lay_fn' = "lost"
  /\ lay_assignments' = [p \in Positions |-> 0]
  /\ lay_cursor' = 0
  /\ lay_returned' = FALSE
  /\ UNCHANGED <<lay_winningType, lay_positions, scVars, mVars>>

\* one turn of the for loop of buildLosingAssignments: pickRandom gives
\* null for no candidate, and the cell then keeps type 0
LosingCellAssigned ==
  /\ lay_fn = "lost" /\ lay_cursor < LayoutCells
  /\ IF LosingCandidates = {}
     THEN /\ lay_assignments' = [lay_assignments EXCEPT ![lay_cursor] = 0]
          /\ lay_counts' = lay_counts
     ELSE \E choice \in LosingCandidates :
            /\ lay_assignments' =
                 [lay_assignments EXCEPT ![lay_cursor] = choice]
            /\ lay_counts' = Counted(lay_counts, choice)
  /\ lay_cursor' = lay_cursor + 1
  /\ lay_returned' = (lay_cursor + 1 >= LayoutCells)
  /\ UNCHANGED <<lay_fn, lay_cardTypeCount, lay_winningType, lay_positions,
                 scVars, mVars>>

\* No builder is running when the page has loaded.
LInit ==
  /\ lay_fn = "none"
  /\ lay_cardTypeCount = MinCardTypes
  /\ lay_winningType = 0
  /\ lay_positions = [p \in Positions |-> p]
  /\ lay_assignments = [p \in Positions |-> 0]
  /\ lay_counts = [t \in CardTypes(MinCardTypes) |-> 0]
  /\ lay_cursor = 0
  /\ lay_returned = FALSE

WinLayoutNext ==
  \/ BuildWinningAssignmentsCalled
  \/ WinningCellAssigned

LoseLayoutNext ==
  \/ BuildLosingAssignmentsCalled
  \/ LosingCellAssigned

MNext ==
  \/ BetButtonClick
  \/ RandomPickClick
  \/ TileTap
  \/ AutoTileTap
  \/ StartAutobetClick
  \/ ModeChange
  \/ MinesChanged
  \/ NumberOfBetsChanged
  \/ DemoToggle
  \/ IncomingRoundMessage
  \/ IncomingAutoMessage
  \/ ManualSelectionTimerFires
  \/ AutoSelectionTimerFires
  \/ AutoResetTimerFires
  \/ StaggerTimerFires
  \/ FlipTimerFires
  \/ TweenUpdatesDestroyed
  \/ TweenCompletes

\* Manual play: rounds in demo and in live mode, with the messages of a
\* round arriving at any time.
ManualNext ==
  \/ BetButtonClick
  \/ RandomPickClick
  \/ TileTap
  \/ MinesChanged
  \/ DemoToggle
  \/ IncomingRoundMessage
  \/ ManualSelectionTimerFires
  \/ StaggerTimerFires
  \/ FlipTimerFires
  \/ TweenCompletes

\* Rounds in demo mode with the player switching between manual and auto
\* mode, and the messages of a round arriving at any time.
RoundsNext ==
  \/ BetButtonClick
  \/ TileTap
  \/ ModeChange
  \/ MinesChanged
  \/ IncomingRoundMessage
  \/ ManualSelectionTimerFires
  \/ StaggerTimerFires
  \/ FlipTimerFires
  \/ TweenCompletes

\* Auto-play in demo mode, left to run: the player sets it up and starts it,
\* and neither stops it nor is any message delivered.
AutoDemoNext ==
  \/ AutoTileTap
  \/ AutobetStartClick
  \/ ModeChange
  \/ MinesChanged
  \/ NumberOfBetsChanged
  \/ AutoSelectionTimerFires
  \/ AutoResetTimerFires
  \/ StaggerTimerFires
  \/ FlipTimerFires
  \/ TweenCompletes

\* Auto-play in demo mode with the stop thresholds set before the start and
\* the total profit updated by the server while it runs.
AutoThresholdNext ==
  \/ AutoTileTap
  \/ AutobetStartClick
  \/ ModeChange
  \/ StopOnProfitChanged
  \/ StopOnLossChanged
  \/ ProfitUpdateTotal
  \/ AutoSelectionTimerFires
  \/ AutoResetTimerFires
  \/ StaggerTimerFires
  \/ FlipTimerFires
  \/ TweenCompletes

\* Auto-play in demo mode while the relay delivers messages of a round.
AutoRoundsNext ==
  \/ AutoTileTap
  \/ AutobetStartClick
  \/ ModeChange
  \/ IncomingRoundMessage
  \/ AutoSelectionTimerFires
  \/ AutoResetTimerFires
  \/ StaggerTimerFires
  \/ FlipTimerFires
  \/ TweenCompletes

\* a start request reaching the startautobet listener (main.js 1461) while
\* no run is active and there is nothing to start from: no selection on
\* the board, or a selection still pending
RefusableStart ==
  /\ ~autoRunActive
  /\ selectionPending \/ autoSelectionCount <= 0 \/ autoSelectedTiles = {}

StartAutobetEvent ==
  /\ RefusableStart
  /\ Commit(Say(HandleStartAutobetClick(W), "startautobet"))

AutoStartNext ==
  \/ AutoTileTap
  \/ StartAutobetClick
  \/ StartAutobetEvent
  \/ ModeChange
  \/ MinesChanged
  \/ NumberOfBetsChanged
  \/ DemoToggle
  \/ AutoSelectionTimerFires
  \/ AutoResetTimerFires
  \/ StaggerTimerFires
  \/ FlipTimerFires
  \/ TweenCompletes

\* Auto-play with the player free to stop it and to toggle the demo mode at
\* any time; no message is delivered.
AutoStopNext ==
  \/ AutoTileTap
  \/ StartAutobetClick
  \/ ModeChange
  \/ MinesChanged
  \/ NumberOfBetsChanged
  \/ DemoToggle
  \/ AutoSelectionTimerFires
  \/ AutoResetTimerFires
  \/ StaggerTimerFires
  \/ FlipTimerFires
  \/ TweenCompletes

\* Auto-play with a bet budget, left to run, in demo mode or served by the
\* settlement server, which answers each auto-round request.
AutoBudgetNext ==
  \/ AutoTileTap
  \/ AutobetStartClick
  \/ ModeChange
  \/ MinesChanged
  \/ NumberOfBetsChanged
  \/ GoLive
  \/ ServerAutoBetResult
  \/ AutoSelectionTimerFires
  \/ AutoResetTimerFires
  \/ StaggerTimerFires
  \/ FlipTimerFires
  \/ TweenCompletes

\* Unbounded auto-play on the default board, in demo mode or served by the
\* settlement server, which answers auto-round requests and stop requests;
\* the player starts and stops it.
AutoLiveNext ==
  \/ AutoTileTap
  \/ StartAutobetClick
  \/ ModeChange
  \/ GoLive
  \/ ServerAutoBetResult
  \/ ServerStopAutobet
  \/ AutoSelectionTimerFires
  \/ AutoResetTimerFires
  \/ StaggerTimerFires
  \/ FlipTimerFires
  \/ TweenCompletes

vars == <<scVars, mVars, lVars>>

Init == ScInit /\ MInit /\ LInit

SpecWinLayout == Init /\ [][WinLayoutNext]_vars

SpecLoseLayout == Init /\ [][LoseLayoutNext]_vars

SpecScratch == Init /\ [][ScNext]_vars

Spec == Init /\ [][MNext]_vars

SpecManual == Init /\ [][ManualNext]_vars

SpecRounds == Init /\ [][RoundsNext]_vars

\* Both controllers side by side: the scratch card played in any way, and
\* the Mines panel operated in demo and in live mode without a pick.
RelayNext ==
  \/ ScNext
  \/ BetButtonClick
  \/ DemoToggle
  \/ MinesChanged
  \/ ModeChange
  \/ NumberOfBetsChanged

SpecRelay == Init /\ [][RelayNext]_vars

SpecAutoDemo == Init /\ [][AutoDemoNext]_vars

SpecAutoThreshold == Init /\ [][AutoThresholdNext]_vars

SpecAutoRounds == Init /\ [][AutoRoundsNext]_vars

SpecAutoStart == Init /\ [][AutoStartNext]_vars
SpecAutoStop == Init /\ [][AutoStopNext]_vars

SpecAutoBudget == Init /\ [][AutoBudgetNext]_vars

SpecAutoLive == Init /\ [][AutoLiveNext]_vars

(***************************************************************************)
(* Claims about the scratch-card controller.                               *)
(***************************************************************************)

\* A wager of the scratch-card controller is open while its request is
\* unanswered or while its round is on the board and not yet complete.
ScWagerOpen == sc_awaiting > 0 \/ sc_gamePhase \in {"round", "revealing"}

\* C1: a second wager is never submitted (no further request is sent and no
\* further local round is built) while an earlier wager is still awaiting its
\* result or its round is still active.
C1_NoSecondWager ==
  [][(sc_wagerSeq' # sc_wagerSeq) => ~ScWagerOpen]_vars

\* C3: an inbound bet-result installs a round assignment only when a wager is
\* awaiting its result and no round is active; in any other state it starts no
\* round and leaves the assignment on the board alone.
C3_BetResultOnlyWhenAwaiting ==
  [][(ScIncoming /\ ~(sc_waitingForResult /\ ~sc_roundActive))
       => (sc_gameTag' = sc_gameTag /\ sc_roundActive' = sc_roundActive)]_vars

(***************************************************************************)
(* Claims about the Mines controller: rounds.                              *)
(***************************************************************************)

\* the cells of the board that show their face
RevealedCells == {c \in Cells : tiles[c].revealed}

\* C2: a wager start (a Bet click that reaches handleBet, or an inbound
\* start-bet) that comes while a round is active is not accepted: the round
\* stays active and the revealed cells, the count of revealed safe cells and
\* the mine count of the round in progress stay as they are.
C2_WagerStartOnlyWhenIdle ==
  [][(roundActive /\ ("start-bet" \in called' \/ "handleBet" \in called'))
       => /\ roundActive'
          /\ {c \in Cells : tiles'[c].revealed} = RevealedCells
          /\ revealedSafe' = revealedSafe
          /\ mines' = mines]_vars

\* the relay delivers a bet-result
BetResultArrives ==
  \E r \in ServerResults : Deliver([type |-> "bet-result", result |-> r])

\* C4: a bet-result that arrives for a selection whose round has been
\* finalized since the selection was sent is discarded: it starts no reveal
\* and does not end the game on the board.
C4_StaleBetResultDiscarded ==
  [][(asked /\ ~roundActive /\ BetResultArrives)
       => (reveals' = reveals /\ gameOver' = gameOver)]_vars

\* C5: a cashout request (the button or an inbound cashout) that comes while
\* no round is active or while cashout is not available sends no message,
\* reveals no cell and leaves roundActive and cashoutAvailable as they are.
C5_CashoutOnlyWhenAvailable ==
  [][("cashout" \in called' /\ ~(roundActive /\ cashoutAvailable))
       => /\ sent' = {}
          /\ reveals' = reveals /\ tiles' = tiles
          /\ roundActive' = roundActive
          /\ cashoutAvailable' = cashoutAvailable]_vars

\* a cashout request has just been refused
C5_Witness ==
  /\ "cashout" \in called /\ "finalize" \notin called /\ sent = {}
  /\ ~(roundActive /\ cashoutAvailable)

\* C6: in every reachable state cashoutAvailable holds exactly when a round
\* is active and the board counts at least one revealed safe cell, and it is
\* false right after finalizeRound.
C6_CashoutAvailability ==
  /\ cashoutAvailable <=> (roundActive /\ revealedSafe >= 1)
  /\ "finalize" \in called => ~cashoutAvailable

(***************************************************************************)
(* Claims about the Mines controller: auto-play.                           *)
(***************************************************************************)

\* The running session has something left to wait for: the selection timer
\* of its cycle, a reveal of its batch or the timer of its next cycle.
AutoCyclePending ==
  \/ selectionDelayHandle = "auto"
  \/ autoResetTimer
  \/ \E t \in reveals : t.batch # 0

C8_OneBetPerCycle ==
  (autoRunActive /\ IsFinite(sessionBets))
     => autoBetsRemaining + cyclesRun
          = sessionBets + (IF autoRoundInProgress THEN 1 ELSE 0)

\* C9: a cycle starts only when no earlier cycle is in flight: the flag
\* autoRoundInProgress is down and no reveal of an earlier batch is still to
\* deliver its completion callback.
C9_CyclesDoNotOverlap ==
  [][("cycle" \in called')
       => (~autoRoundInProgress /\ \A t \in reveals : t.batch = 0)]_vars

\* C10: once a stop is requested (autoStopFinishing is up) auto-play keeps
\* running until the cycle in flight is over: it stops only when
\* autoRoundInProgress is down and no reveal of a batch is in progress, and
\* no cycle starts while the request stands.
C10_StopLetsCycleComplete ==
  [][/\ (~autoStopFinishing /\ autoStopFinishing') => autoRunActive'
     /\ (autoRunActive /\ autoStopFinishing /\ ~autoRunActive')
          => (~autoRoundInProgress /\ \A t \in reveals : t.batch = 0)
     /\ (autoRunActive /\ autoStopFinishing) => "cycle" \notin called']_vars

\* the player clicks the autobet button while it reads "stop"
StopRequested == autoRunActive /\ ~autoStopFinishing /\ StartAutobetClick

\* C11: a stop requested between two cycles (the reset timer is armed, no
\* cycle and no reveal is in progress) leaves the reset timer cancelled and
\* autoRunActive false when the click handler returns.
C11_StopBetweenCyclesIsImmediate ==
  [][(StopRequested /\ autoResetTimer /\ ~autoRoundInProgress
        /\ reveals = {})
       => (~autoResetTimer' /\ ~autoRunActive')]_vars

\* C12: a session whose stop is requested (by the player or by the budget
\* running out) ends by itself, timers and reveals alone carrying it to
\* autoRunActive = false.  Its safety core: while such a session still runs,
\* a timer is armed or a reveal is in progress; a state without any is one
\* the session never leaves unless a message arrives.
C12_StopRequestEndsSession ==
  (autoRunActive /\ autoStopFinishing)
     => (autoResetTimer \/ selectionDelayHandle = "auto" \/ reveals # {})

\* the mode buttons are disabled for as long as an auto-play session runs
\* (setAutoRunUIState(true) and finalizeRound with autoRunActive), so the
\* panel cannot dispatch a mode change during a session
ModeToggleLockedWhileRunning == autoRunActive => ~cp_modeToggleClickable

\* a stop threshold is set and the displayed total profit has reached it
ThresholdCrossed ==
  \/ cp_stopOnProfit > 0 /\ totalProfitAmountDisplayValue >= cp_stopOnProfit
  \/ cp_stopOnLoss > 0 /\ 0 - totalProfitAmountDisplayValue >= cp_stopOnLoss

\* C15: when an auto cycle settles with a stop threshold crossed, the
\* session enters the finishing state, and no further cycle is started
\* while a threshold is crossed after a settled cycle.
C15_ThresholdEndsAutoPlay ==
  [][/\ ("finished" \in called' /\ autoRunActive' /\ ThresholdCrossed')
          => autoStopFinishing'
     /\ (autoResetTimer /\ "cycle" \in called') => ~ThresholdCrossed]_vars

\* a step that finalizes or starts a round, switches the mode or stops the
\* auto session, and neither starts an auto cycle nor settles one (the two
\* places that arm a timer of the auto session)
InvalidatingStep ==
  /\ \/ "finalize" \in called'
     \/ ~roundActive /\ roundActive'
     \/ controlPanelMode' # controlPanelMode
     \/ autoRunActive /\ ~autoRunActive'
  /\ "cycle" \notin called' /\ "finished" \notin called'

\* C16: a selection-delay timer or an auto-reset timer armed before a round
\* reset or finalize, a mode switch or an auto-play stop is not left armed
\* by it with its callback still able to act (the auto-reset callback acts
\* whenever the session is active in demo mode).
C16_StaleTimersInvalidated ==
  [][InvalidatingStep
       => /\ ~(selectionDelayHandle # "none" /\ selectionDelayHandle' # "none")
          /\ ~(autoResetTimer /\ autoResetTimer' /\ autoRunActive'
                 /\ demoMode')]_vars

\* the player's reveal of cell c has started and its completion is not
\* processed yet
RevealInFlight(c) == \E t \in reveals : t.cell = c /\ t.byPlayer

\* C17: a cell whose reveal has started and is not completed accepts no
\* further pick, and revealedSafe never exceeds the number of cells revealed
\* as safe.
C17_NoPickDuringReveal ==
  [][/\ \A c \in Cells :
          (selectedTile' = c /\ selectedTile # c) => ~RevealInFlight(c)
     /\ revealedSafe' <= Cardinality({c \in Cells : tiles'[c].revealed})]_vars

C19_ToggleKeepsSelectionPending ==
  [][(demoMode' # demoMode /\ selectionPending /\ waitingForChoice)
       => /\ selectionPending'
          /\ selectionDelayHandle' = selectionDelayHandle
          /\ waitingForChoice' /\ selectedTile' = selectedTile]_vars

\* the relay delivers a bet-result whose result is missing or unrecognised
UnrecognisedBetResult == Deliver([type |-> "bet-result", result |-> "none"])

\* C20: a bet-result whose result field is missing or not a recognised
\* value is treated as a loss: the reveal it starts on the selected cell
\* shows the cell as unsafe.
C20_UnrecognisedResultIsLoss ==
  [][UnrecognisedBetResult
       => \A t \in reveals' \ reveals : t.byPlayer => t.face = "bomb"]_vars

\* the cells of the layout that carry type t
CellsOfType(t) == {p \in Positions : lay_assignments[p] = t}

\* C21: a layout returned by buildWinningAssignments has exactly 3 cells of
\* the winning type and at most 2 cells of every other type (the fallback
\* to the winning type is never taken for 5 card types or more).
C21_WinningLayoutShape ==
  (lay_fn = "win" /\ lay_returned)
     => /\ Cardinality(CellsOfType(lay_winningType)) = WinningCells
        /\ \A t \in CardTypes(lay_cardTypeCount) \ {lay_winningType} :
             Cardinality(CellsOfType(t)) <= TypeCap

\* a winning layout has been returned with some other type at its cap
C21_Witness ==
  /\ lay_fn = "win" /\ lay_returned
  /\ \E t \in CardTypes(lay_cardTypeCount) \ {lay_winningType} :
       Cardinality(CellsOfType(t)) = TypeCap

\* C22: a layout returned by buildLosingAssignments has no type on more
\* than 2 of its 9 cells.
C22_LosingLayoutShape ==
  (lay_fn = "lost" /\ lay_returned)
     => \A t \in CardTypes(lay_cardTypeCount) :
          Cardinality(CellsOfType(t)) <= TypeCap

\* a losing layout has been returned for the smallest number of card types
C22_Witness ==
  /\ lay_fn = "lost" /\ lay_returned /\ lay_cardTypeCount = MinCardTypes
  /\ \E t \in CardTypes(lay_cardTypeCount) :
       Cardinality(CellsOfType(t)) = TypeCap

\* the round on the board is over and every cell has been revealed
BoardFullyRevealed ==
  gameOver /\ reveals = {} /\ \A c \in Cells : tiles[c].revealed

\* C23: when a round has ended and the whole board is revealed, exactly
\* `mines` cells show a mine.
C23_ExactlyMinesRevealed ==
  BoardFullyRevealed
     => Cardinality({c \in Cells : tiles[c].face = "bomb"}) = mines

\* the board's reset left out of the round reset
RoundResetFinalizeOnly(w) ==
  FinalizeRound(w, w.controlPanelMode = "auto")

\* stopAutoBetProcess, main.js 949-957: finalizeRound followed by the
\* board's reset, both told to preserve the selections in auto mode
RoundReset(w) ==
  IF w.controlPanelMode = "auto"
  THEN ResetPreserving(FinalizeRound(w, TRUE))
  ELSE ResetBoard(FinalizeRound(w, FALSE))

\* a world without the record of what its last handler called and sent
Quiet(w) == [w EXCEPT !.called = {}, !.sent = {}]

\* no round, no pending selection or selection timer, an empty board
IdleShape(w) ==
  /\ ~w.roundActive /\ ~w.cashoutAvailable
  /\ ~w.selectionPending /\ w.selectionDelayHandle = "none"
  /\ ~w.waitingForChoice /\ w.selectedTile = 0
  /\ w.bombPositions = {} /\ w.revealedSafe = 0 /\ ~w.gameOver
  /\ \A c \in Cells : ~w.tiles[c].revealed

\* Idle: the shape above with no flip under way, no auto run, and the bet
\* button ready to take a wager
Idle(w) ==
  /\ IdleShape(w) /\ w.reveals = {}
  /\ ~w.autoRunActive /\ w.cp_betClickable /\ w.betButtonMode = "bet"

UnsafeFlipCompletes ==
  /\ controlPanelMode = "manual" /\ roundActive
  /\ \E t \in reveals :
        /\ t.phase = "tween" /\ t.byPlayer /\ t.face = "bomb" /\ ~t.dead
        /\ ~tiles[t.cell].revealed /\ tiles'[t.cell].revealed
        /\ tiles'[t.cell].face = "bomb"

\* the unsafe outcome is applied to the selected cell of a manual round
UnsafeOutcomeApplied ==
  /\ controlPanelMode = "manual" /\ roundActive /\ waitingForChoice
  /\ \E t \in reveals' \ reveals :
        t.cell = selectedTile /\ t.byPlayer /\ t.face = "bomb"

\* a cell becomes the selected tile, or the controller starts to wait for
\* an outcome
PickAccepted ==
  \/ ~waitingForChoice /\ waitingForChoice'
  \/ ~selectionPending /\ selectionPending'

DemoPickAccepted ==
  /\ controlPanelMode = "manual" /\ roundActive /\ demoMode
  /\ ~waitingForChoice /\ waitingForChoice'

\* the flip of the cell a player picked in a manual round ends face up on
\* a diamond
SafeFlipCompletes ==
  /\ controlPanelMode = "manual" /\ roundActive
  /\ \E t \in reveals :
        /\ t.phase = "tween" /\ t.byPlayer /\ t.face = "diamond" /\ ~t.dead
        /\ ~tiles[t.cell].revealed /\ tiles'[t.cell].revealed
        /\ tiles'[t.cell].face = "diamond"

\* C26: in a manual demo round an accepted pick makes the selection pending
\* with the delay timer armed, the timer stays armed for as long as the
\* selection is pending, and when the picked cell turns up safe
\* revealedSafe grows by exactly 1 and, unless that was the last safe cell
\* or another pick has lost the round meanwhile, the round stays active
\* with the cashout available.
C26_SafePickKeepsRoundActive ==
  [][/\ DemoPickAccepted =>
           /\ selectionPending' /\ selectionDelayHandle' = "manual"
           /\ selectedTile' \in Cells /\ ~tiles[selectedTile'].revealed
     /\ (controlPanelMode = "manual" /\ roundActive /\ demoMode
           /\ selectionPending) => selectionDelayHandle = "manual"
     /\ SafeFlipCompletes =>
           /\ revealedSafe' = revealedSafe + 1
           /\ (~gameOver /\ revealedSafe + 1 < totalSafe)
                 => roundActive' /\ cashoutAvailable']_vars

\* the first safe cell of a round with more safe cells to find is showing
C26_Witness ==
  /\ controlPanelMode = "manual" /\ demoMode /\ roundActive
  /\ cashoutAvailable /\ revealedSafe = 1 /\ totalSafe > 1
  /\ inbound = 0 /\ ~gameOver
  /\ \E c \in Cells : tiles[c].revealed /\ tiles[c].face = "diamond"

\* C26 as stated: whenever the picked cell turns up safe the round is
\* active again with revealedSafe one higher and the cashout available.
C26_SafePickAlwaysKeepsRoundActive ==
  [][SafeFlipCompletes =>
       /\ revealedSafe' = revealedSafe + 1
       /\ roundActive' /\ cashoutAvailable']_vars

\* C27: a start request made with no selection on the board, or with a
\* selection pending, changes nothing: no run becomes active, no cycle
\* runs and no message is sent; and whenever a cycle is started the stored
\* selection set is non-empty.
C27_EmptyStartRefused ==
  [][/\ (RefusableStart /\ "startautobet" \in called') =>
           /\ ~autoRunActive' /\ ~autoRunFlag' /\ "cycle" \notin called'
           /\ sent' = {} /\ storedAutoSelections' = storedAutoSelections
           /\ autoBetsRemaining' = autoBetsRemaining
           /\ roundActive' = roundActive /\ tiles' = tiles
     /\ (~autoRunActive /\ autoRunActive') =>
           /\ ~selectionPending /\ autoSelectedTiles # {}
     /\ "cycle" \in called' => storedAutoSelections' # {}]_vars

\* a start request has just been refused in auto mode after an earlier run
C27_Witness ==
  /\ "startautobet" \in called /\ controlPanelMode = "auto"
  /\ ~autoRunActive /\ autoSelectedTiles = {} /\ cyclesRun > 0

\* C28: while an auto run is active autoBetsRemaining is never negative and
\* never grows from one state to the next; a run begun without a positive
\* bet count keeps it infinite, and a finite budget never turns infinite.
C28_BetsRemainingNonIncreasing ==
  [][/\ autoRunActive =>
           /\ autoBetsRemaining = Infinity \/ autoBetsRemaining >= 0
           /\ ~IsFinite(sessionBets) => autoBetsRemaining = Infinity
     /\ (autoRunActive /\ autoRunActive') =>
           IF IsFinite(autoBetsRemaining)
           THEN /\ IsFinite(autoBetsRemaining')
                /\ autoBetsRemaining' <= autoBetsRemaining
           ELSE autoBetsRemaining' = Infinity]_vars

\* a cycle of a run with a finite budget has just been counted
C28_Witness ==
  /\ autoRunActive /\ "finished" \in called
  /\ IsFinite(sessionBets) /\ autoBetsRemaining < sessionBets

C30_PendingAgreesWithBoard ==
  selectionPending <=> (waitingForChoice /\ selectedTile \in Cells)

\* handleCashout is called and gets past its guard
CashoutExecuted ==
  "cashout" \in called' /\ roundActive /\ cashoutAvailable

\* an unsafe outcome has been applied to the picked cell and its flip has
\* not completed
UnsafeRevealInFlight ==
  \E t \in reveals : t.byPlayer /\ t.face = "bomb" /\ t.batch = 0 /\ ~t.dead

\* C31: a cashout, from the button or from an inbound cashout message, is
\* never executed while a selection awaits its outcome nor while the flip
\* of a cell with an unsafe outcome is under way.
C31_NoCashoutDuringSelection ==
  [][CashoutExecuted =>
       /\ ~selectionPending /\ ~waitingForChoice
       /\ ~UnsafeRevealInFlight]_vars

\* the completion callback of a reveal started on a board that has since
\* been reset is run
StaleCompletionRuns ==
  \E t \in reveals : t.dead /\ t \notin reveals'

\* C32: the completion callback of a reveal started before a reset calls
\* neither onWin nor onGameOver, starts no reveal and reveals no cell of
\* the new board, and leaves its revealedSafe and gameOver as they are.
C32_StaleCompletionsInert ==
  [][StaleCompletionRuns =>
       /\ "onWin" \notin called' /\ "onGameOver" \notin called'
       /\ reveals' \subseteq reveals /\ tiles' = tiles
       /\ revealedSafe' = revealedSafe /\ gameOver' = gameOver]_vars

\* in the world n a handler has left, the batch just started flips the
\* cell c as a mine and has recorded the hit, which closes the win path
UnsafeRevealedAsMine(n, c) ==
  /\ \E t \in n.reveals :
        t.cell = c /\ t.byPlayer /\ t.batch # 0 /\ t.face = "bomb"
  /\ \A id \in DOMAIN n.batches \ DOMAIN batches : n.batches[id].bombHit

\* the batch of a demo cycle whose local draw marks the cell unsafe
DemoUnsafeHandled ==
  (/\ selectionDelayHandle = "auto" /\ autoRunActive /\ roundActive
   /\ FreeBatchIds(W) # {})
    => \A bombAt \in selectionDelayCells : \A r \in Shuffles(W, TRUE) :
         Started(W, bombAt) =>
           UnsafeRevealedAsMine(AutoSelectionTimerBody(W, bombAt, r, r),
                                bombAt)

\* the batch of an inbound auto-bet-result that marks a cell unsafe
ServerUnsafeHandled ==
  (/\ ~demoMode /\ autoRunActive /\ autoRoundInProgress /\ ~gameOver
   /\ FreeBatchIds(W) # {})
    => \A f \in [storedAutoSelections -> ServerResults] :
         \A c \in storedAutoSelections : \A r \in Shuffles(W, TRUE) :
           (f[c] = "lost" /\ Started(W, c)) =>
             UnsafeRevealedAsMine(
               IncomingListener(W, [type |-> "auto-bet-result",
                                    results |-> f], r, r),
               c)

\* C33: a batch result that marks a selected cell unsafe starts the flip of
\* that cell as a mine and closes the win path of the cycle, for the
\* results drawn locally in demo mode as for those of auto-bet-result.
C33_UnsafeBatchResultSameForBothSources ==
  DemoUnsafeHandled /\ ServerUnsafeHandled

\* executeAutoBetRound starts a cycle of a run that is already under way
LaterCycleStarts == autoRunActive /\ "cycle" \in called'

C35_AutoFlagsNest ==
  /\ autoRunFlag => autoRunActive
  /\ autoRoundInProgress => autoRunActive
  /\ autoStopFinishing => autoRunActive
  /\ autoStopShouldComplete => autoRunActive /\ ~autoRunFlag

\* the budget of a run is spent and the run waits for its last reset
C35_Witness ==
  /\ autoRunActive /\ ~autoRunFlag /\ autoStopShouldComplete
  /\ autoStopFinishing /\ autoResetTimer

\* C36: at most one selection-delay timeout and at most one auto-reset
\* timeout is pending at any time, each the one its handle names; a pending
\* auto-reset timeout implies autoRunActive and a pending selection-delay
\* timeout implies roundActive.
C36_TimersSingleAndOwned ==
  /\ selectionTimers = (IF selectionDelayHandle # "none" THEN 1 ELSE 0)
  /\ resetTimers = (IF autoResetTimer THEN 1 ELSE 0)
  /\ resetTimers > 0 => autoRunActive
  /\ selectionTimers > 0 => roundActive

\* the auto-reset timeout of a running auto-play is pending after its cycle
\* was finalized, no selection-delay timeout being left
C36_Witness ==
  /\ resetTimers = 1 /\ autoResetTimer /\ autoRunActive
  /\ selectionTimers = 0 /\ ~roundActive

\* C37: the Bet/Cashout button is in "cashout" mode exactly while a round
\* is active, so no step taken during an active round reaches handleBet: a
\* click on the button is routed to the cashout.
C37_BetButtonModeFollowsRound ==
  /\ [](betButtonMode = "cashout" <=> roundActive)
  /\ [][roundActive => "handleBet" \notin called']_vars

\* a click on the button during an active live round has asked for the
\* cashout
C37_Witness ==
  /\ roundActive /\ betButtonMode = "cashout" /\ ~demoMode
  /\ "cashout" \in called /\ sent # {}

\* the scratch-card controller hands a request to the settlement channel
ScSends == sc_awaiting' > sc_awaiting

\* the Mines controller hands a message to the settlement channel
MinesSends == mVars' # mVars /\ sent' # {}

\* C38: no message is handed to the settlement channel in demo mode, in
\* either controller: a step that sends ends with the sending controller's
\* demoMode false (demoMode is only written by the demo-mode listeners,
\* which send nothing themselves).
C38_NoSendInDemoMode ==
  [][/\ ScSends => ~sc_demoMode /\ ~sc_demoMode'
     /\ MinesSends => ~demoMode /\ ~demoMode']_vars

\* both controllers are live and each has a request out
C38_Witness ==
  /\ ~sc_demoMode /\ sc_awaiting > 0
  /\ ~demoMode /\ sent # {}

\* C39: in the scratch-card controller the bet button is enabled exactly
\* when auto mode is running or neither a result is awaited nor a round is
\* active, and reveal-all is enabled exactly when a round is active and no
\* result is awaited.
C39_PanelFollowsRoundState ==
  /\ sc_betEnabled <=>
        \/ sc_currentMode = "auto" /\ sc_autoRunning
        \/ ~sc_waitingForResult /\ ~sc_roundActive
  /\ sc_revealAllEnabled <=> sc_roundActive /\ ~sc_waitingForResult

\* an auto round is on the board: the button stops auto-play and
\* reveal-all is offered
C39_Witness ==
  /\ sc_currentMode = "auto" /\ sc_autoRunning /\ sc_roundActive
  /\ ~sc_waitingForResult /\ sc_betEnabled /\ sc_revealAllEnabled

\* a ?? b
Coalesce(a, b) == IF a = Null THEN b ELSE a

\* The winningCardTypeId of the round data built from the returned layout:
\* winningType in buildRound, data.winningType ?? winningCardTypeId ?? 0 in
\* handleBetResult, and null for a losing round in both.
ReportedWinningCardTypeId ==
  IF lay_fn = "win" THEN Coalesce(lay_winningType, 0) ELSE Null

\* the cells buildWinningAssignments gave to the winning type first
WinningPositions == {lay_positions[k] : k \in 0..(WinningCells - 1)}

\* C40: the winningCardTypeId reported for a winning round lies in
\* 0..cardTypeCount-1 and is the type of the three winning cells, whatever
\* id the round was asked with; for a losing round it is null.
C40_ReportedWinningTypeInRange ==
  lay_returned =>
    /\ lay_fn = "win" =>
          /\ ReportedWinningCardTypeId \in CardTypes(lay_cardTypeCount)
          /\ \A p \in WinningPositions :
               lay_assignments[p] = ReportedWinningCardTypeId
    /\ lay_fn = "lost" => ReportedWinningCardTypeId = Null

\* the same for the rounds asked with a numeric id, in range or not
NumericIdReportedInRange ==
  (lay_returned /\ lay_fn = "win" /\ lay_winningType # NaN) =>
    /\ ReportedWinningCardTypeId \in CardTypes(lay_cardTypeCount)
    /\ \A p \in WinningPositions :
         lay_assignments[p] = ReportedWinningCardTypeId

====
